---- MODULE Spec2Model ----
(***************************************************************************)
(* Model of the ingest core of continuum: the Chunker (chunkText), the     *)
(* Extractor (extractIdentityFromLongText), the Profile Merger             *)
(* (mergeProfileJsons), the History Merger (mergeExports), the Format      *)
(* Detector and the Parsers of an upload (lib/parsers, lib/parseFiles),    *)
(* the API keys with the identity-graph API, and the export history store. *)
(*                                                                         *)
(* Strings are sequences of one-character tokens; " ", "LF" and "CR" are   *)
(* the whitespace tokens.  JavaScript values are records tagged by t.      *)
(***************************************************************************)
EXTENDS Integers, Sequences, FiniteSets, Bags, TLC

VARIABLES
    list,       \* Profile Merger: the argument of mergeProfileJsons
    result,     \* Profile Merger: the value it returned
    mpc,        \* Profile Merger: "idle" | "call" | "done"
    history,    \* History Merger: the export records in localStorage, in stored order
    exportIds,  \* History Merger: the argument of mergeExports
    mergedProfile, \* History Merger: what mergeExports returned (Thrown if it threw)
    hpc,        \* History Merger: "idle" | "call" | "done"
    chunks,     \* Extractor: the chunks of the transcript (what chunkText returned)
    idx,        \* Extractor: index of the chunk in work (idx = i + 1 of the code)
    partials,   \* Extractor: the fragments parsed so far
    origins,    \* Extractor: for each entry of partials, the chunk and pass it is from
    calls,      \* Extractor: the completion-service calls issued so far
    used,       \* Extractor: the counter used
    extracted,  \* Extractor: the value the promise resolved to
    epc,        \* Extractor: "idle" | "start" | "general" | "work" | "merge" |
                \*            "returned" | "rejected"
    input,      \* Chunker: the argument input
    maxCharsPerChunk,   \* Chunker: the argument maxCharsPerChunk
    maxChunks,  \* Chunker: the argument maxChunks
    text,       \* Chunker: the normalized text
    start,      \* Chunker: the loop position start (a 0-based index into text)
    chunkList,  \* Chunker: the local array chunks
    slices,     \* Chunker: the [start, end) of every loop iteration so far
    chunked,    \* Chunker: the array chunkText returned
    cpc,        \* Chunker: "idle" | "call" | "loop" | "returned"
    files,      \* Upload: the uploaded files, in order
    called,     \* Upload: the parser entry point that was called ("none" before)
    provider,   \* Upload: the tag the format detector of that entry point gave
    rawText,    \* Upload: the string the parser returned (Thrown if it threw)
    upc,        \* Upload: "idle" | "ready" | "parsed" | "failed" | "extracting"
    users,      \* API: the rows of table users (a user's id is written as the email)
    api_keys,   \* API: the rows of table api_keys, in insertion order
    api_usage,  \* API: the rows of table api_usage, as a bag
    identity_graphs,    \* API: for each user the version of the stored graph, 0 if none
    now,        \* API: what Date.now() returns, in hours
    response,   \* API: the response to the last request
    served,     \* API: number of requests handled so far
    localStorage, \* Store: the item continuum_export_history of localStorage
    saves,      \* Store: number of records saved so far (the ids given out)
    clock,      \* Store: Date.now()
    storeCall,  \* Store: the last call and what it returned
    storeCalls  \* Store: number of calls so far

mergeVars == <<list, result, mpc>>
historyVars == <<history, exportIds, mergedProfile, hpc>>
extractVars == <<chunks, idx, partials, origins, calls, used, extracted, epc>>
chunkVars ==
    <<input, maxCharsPerChunk, maxChunks, text, start, chunkList, slices, chunked, cpc>>
uploadVars == <<files, called, provider, rawText, upc>>
apiVars == <<users, api_keys, api_usage, identity_graphs, now, response, served>>
storeVars == <<localStorage, saves, clock, storeCall, storeCalls>>
vars ==
    <<mergeVars, historyVars, extractVars, chunkVars, uploadVars, apiVars, storeVars>>

\* bounds of the model
MaxFragments == 2       \* longest fragment list handed to mergeProfileJsons
MaxSessions == 2        \* most export records in the stored history
MaxChunkCount == 2      \* most chunks of a transcript handed to the Extractor
MaxTextLen == 6         \* longest input of chunkText
MaxBudget == 4          \* largest maxCharsPerChunk
MaxCap == 2             \* largest maxChunks
MaxFiles == 2           \* longest upload of plain files
MaxMessages == 2        \* most messages in a conversation
MaxKeys == 2            \* most rows of table api_keys
MaxRequests == 3        \* most requests the API is sent
MaxClock == 3           \* latest hour the clock reaches
MaxStoreCalls == 3      \* most calls of the export history store

(***************************************************************************)
(* Strings                                                                 *)
(***************************************************************************)
Whitespace == {" ", "LF", "CR"}

LowerChar(c) ==
    CASE c = "P" -> "p"
      [] c = "G" -> "g"
      [] c = "A" -> "a"
      [] c = "I" -> "i"
      [] c = "M" -> "m"
      [] c = "L" -> "l"
      [] c = "S" -> "s"
      [] OTHER -> c

\* String.prototype.toLowerCase
ToLowerCase(s) == [k \in 1..Len(s) |-> LowerChar(s[k])]

RECURSIVE TrimStart(_)
TrimStart(s) ==
    IF s # <<>> /\ Head(s) \in Whitespace THEN TrimStart(Tail(s)) ELSE s

RECURSIVE TrimEnd(_)
TrimEnd(s) ==
    IF s # <<>> /\ s[Len(s)] \in Whitespace
    THEN TrimEnd(SubSeq(s, 1, Len(s) - 1))
    ELSE s

\* String.prototype.trim
Trim(s) == TrimEnd(TrimStart(s))

(***************************************************************************)
(* JavaScript values                                                       *)
(***************************************************************************)
Undefined == [t |-> "undefined"]
JNull == [t |-> "null"]
JStr(s) == [t |-> "string", v |-> s]
JNum(n) == [t |-> "number", v |-> n]
JArr(a) == [t |-> "array", v |-> a]

\* !value
Falsy(x) ==
    \/ x.t \in {"undefined", "null"}
    \/ x.t = "string" /\ x.v = <<>>
    \/ x.t = "number" /\ x.v = 0

\* obj?.field  (undefined when obj is null, undefined, or has no such field)
Get(obj, field) ==
    IF obj.t = "object" /\ field \in DOMAIN obj THEN obj[field] ELSE Undefined

Digit(n) == <<"0", "1", "2", "3", "4", "5", "6", "7", "8", "9">>[n + 1]

\* String(v) for the values a JSON array can hold here
StringOf(x) ==
    CASE x.t = "string" -> x.v
      [] x.t = "null" -> <<"n", "u", "l", "l">>
      [] x.t = "number" -> <<Digit(x.v)>>
      [] OTHER -> <<"u", "n", "d", "e", "f", "i", "n", "e", "d">>

(***************************************************************************)
(* Profile Merger (lib/ingest/mergeProfiles.ts)                            *)
(***************************************************************************)
ScalarFields ==
    { <<"basic", "name">>, <<"basic", "age_range">>, <<"basic", "location">>,
      <<"preferences", "tone">> }

GroupCollFields ==
    { <<"preferences", "likes">>, <<"preferences", "dislikes">>,
      <<"work", "roles">>, <<"work", "industries">>, <<"work", "current_focus">>,
      <<"goals", "short_term">>, <<"goals", "long_term">> }

TopCollFields == {"constraints", "skills", "communication_style"}

\* .filter((v) => v.length > 0)
RECURSIVE FilterNonEmpty(_)
FilterNonEmpty(a) ==
    IF a = <<>> THEN <<>>
    ELSE (IF Len(Head(a)) > 0 THEN <<Head(a)>> ELSE <<>>) \o FilterNonEmpty(Tail(a))

\* toCleanArray: a non-array is [], entries become String(v).trim(), empties go
toCleanArray(value) ==
    IF Falsy(value) THEN <<>>
    ELSE IF value.t # "array" THEN <<>>
    ELSE FilterNonEmpty([k \in 1..Len(value.v) |-> Trim(StringOf(value.v[k]))])

\* Array.from(new Set(a)): the first occurrence of each exact string, in order
RECURSIVE SetOrder(_, _)
SetOrder(a, seen) ==
    IF a = <<>> THEN <<>>
    ELSE IF Head(a) \in seen THEN SetOrder(Tail(a), seen)
    ELSE <<Head(a)>> \o SetOrder(Tail(a), seen \cup {Head(a)})

\* a merge that lets the incoming entries replace the ones held
mergeArraysOverwrite(a, b) ==
    IF Len(toCleanArray(b)) > 0
    THEN JArr([k \in 1..Len(SetOrder(toCleanArray(b), {})) |->
                 JStr(SetOrder(toCleanArray(b), {})[k])])
    ELSE JArr([k \in 1..Len(SetOrder(toCleanArray(a), {})) |->
                 JStr(SetOrder(toCleanArray(a), {})[k])])

mergeArrays(a, b) ==
    LET merged == toCleanArray(a) \o toCleanArray(b)
        unique == SetOrder(merged, {})
    IN JArr([k \in 1..Len(unique) |-> JStr(unique[k])])

IsNonBlankString(x) == x.t = "string" /\ Len(Trim(x.v)) > 0

\* a bug pickString could have: the incoming value overwrites the existing one
pickStringLastWins(existing, incoming) ==
    IF IsNonBlankString(incoming) THEN incoming
    ELSE IF IsNonBlankString(existing) THEN existing
    ELSE JNull

pickString(existing, incoming) ==
    LET e == IF IsNonBlankString(existing) THEN existing ELSE JNull
        i == IF IsNonBlankString(incoming) THEN incoming ELSE JNull
    IN IF e # JNull THEN e ELSE IF i # JNull THEN i ELSE JNull

createEmptyProfileJson ==
    [t |-> "object",
     profile |->
       [t |-> "object",
        basic |-> [t |-> "object", name |-> JNull, age_range |-> JNull,
                   location |-> JNull],
        preferences |-> [t |-> "object", likes |-> JArr(<<>>),
                         dislikes |-> JArr(<<>>), tone |-> JNull],
        work |-> [t |-> "object", roles |-> JArr(<<>>), industries |-> JArr(<<>>),
                  current_focus |-> JArr(<<>>)],
        goals |-> [t |-> "object", short_term |-> JArr(<<>>),
                   long_term |-> JArr(<<>>)],
        constraints |-> JArr(<<>>),
        skills |-> JArr(<<>>),
        communication_style |-> JArr(<<>>)]]

\* one iteration of the for loop of mergeProfileJsons
MergeItem(res, item) ==
    IF Falsy(item) \/ Falsy(Get(item, "profile")) THEN res
    ELSE
      LET p == Get(item, "profile")
          r == res.profile
          S(g, f) == pickString(r[g][f], Get(Get(p, g), f))
          A(g, f) == mergeArrays(r[g][f], Get(Get(p, g), f))
          T(f) == mergeArrays(r[f], Get(p, f))
      IN [t |-> "object",
          profile |->
            [t |-> "object",
             basic |-> [t |-> "object", name |-> S("basic", "name"),
                        age_range |-> S("basic", "age_range"),
                        location |-> S("basic", "location")],
             preferences |-> [t |-> "object", likes |-> A("preferences", "likes"),
                              dislikes |-> A("preferences", "dislikes"),
                              tone |-> S("preferences", "tone")],
             work |-> [t |-> "object", roles |-> A("work", "roles"),
                       industries |-> A("work", "industries"),
                       current_focus |-> A("work", "current_focus")],
             goals |-> [t |-> "object", short_term |-> A("goals", "short_term"),
                        long_term |-> A("goals", "long_term")],
             constraints |-> T("constraints"),
             skills |-> T("skills"),
             communication_style |-> T("communication_style")]]

RECURSIVE MergeLoop(_, _)
MergeLoop(res, items) ==
    IF items = <<>> THEN res
    ELSE MergeLoop(MergeItem(res, Head(items)), Tail(items))

mergeProfileJsons(l) ==
    IF Len(l) = 0 THEN createEmptyProfileJson
    ELSE MergeLoop(createEmptyProfileJson, l)

(***************************************************************************)
(* Inputs of the Profile Merger                                            *)
(***************************************************************************)
\* all sequences over S of length at most n
SeqsUpTo(S, n) == UNION {[1..k -> S] : k \in 0..n}

Python == <<"P", "y">>
python == <<"p", "y">>
Go == <<"G", "o">>
paddedGo == <<" ", "G", "o", " ">>
Alex == <<"A", "l">>
Sam == <<"S", "a">>
paddedSam == <<" ", "S", "a">>
Blank == <<" ">>
Empty == <<>>

\* what a fragment may hold in a scalar field
ScalarPool ==
    {Undefined, JNull, JStr(Empty), JStr(Blank), JStr(Alex), JStr(Sam),
     JStr(paddedSam), JNum(7)}

\* what a fragment may hold as an entry of a collection
ItemPool == {JStr(Python), JStr(python), JStr(paddedGo), JStr(Blank)}

\* what a fragment may hold in a collection field
ArrayPool ==
    {Undefined, JNull, JStr(Python)}
      \cup {JArr(a) : a \in SeqsUpTo(ItemPool, 2)}

\* a fragment that holds x in the field at path and the defaults elsewhere
WithField(path, x) ==
    LET e == createEmptyProfileJson.profile
    IN [t |-> "object",
        profile |->
          IF Len(path) = 1
          THEN [e EXCEPT ![path[1]] = x]
          ELSE [e EXCEPT ![path[1]][path[2]] = x]]

\* a fragment whose profile lacks the whole group
WithoutGroup(g) ==
    LET e == createEmptyProfileJson.profile
    IN [t |-> "object", profile |-> [e EXCEPT ![g] = Undefined]]

\* responses that are not a profile at all
Shapeless == {JNull, [t |-> "object"], [t |-> "object", profile |-> JNull]}

CollFields == GroupCollFields \cup {<<f>> : f \in TopCollFields}

FragmentsOn(path) ==
    Shapeless
      \cup (IF Len(path) = 2 THEN {WithoutGroup(path[1])} ELSE {})
      \cup {WithField(path, x) :
              x \in IF path \in ScalarFields THEN ScalarPool ELSE ArrayPool}

\* value of the field at path, undefined when the way to it is missing
At(obj, path) ==
    IF Len(path) = 1 THEN Get(Get(obj, "profile"), path[1])
    ELSE Get(Get(Get(obj, "profile"), path[1]), path[2])

(***************************************************************************)
(* Profile Merger as a state machine: pick a list, call, return            *)
(***************************************************************************)
IdleMerge == list = <<>> /\ result = Undefined /\ mpc = "idle"

InitMerge ==
    /\ mpc = "call"
    /\ result = Undefined
    /\ \E path \in ScalarFields \cup CollFields :
         list \in SeqsUpTo(FragmentsOn(path), MaxFragments)

CallMerge ==
    /\ mpc = "call"
    /\ result' = mergeProfileJsons(list)
    /\ mpc' = "done"
    /\ UNCHANGED list
    /\ UNCHANGED <<historyVars, extractVars, chunkVars, uploadVars, apiVars, storeVars>>

NextMerge == CallMerge

(***************************************************************************)
(* Claims about the Profile Merger                                         *)
(***************************************************************************)
\* the key two collection entries are compared by: trimmed and lower-cased
Key(s) == ToLowerCase(Trim(s))

\* the strings of a merged collection field
Strings(arr) == [k \in 1..Len(arr.v) |-> arr.v[k].v]

\* the entries a fragment supplies for a collection field, in order
Supplied(frag, path) ==
    LET x == At(frag, path)
    IN IF x.t = "array" THEN [k \in 1..Len(x.v) |-> StringOf(x.v[k])] ELSE <<>>

RECURSIVE SuppliedByAll(_, _)
SuppliedByAll(frags, path) ==
    IF frags = <<>> THEN <<>>
    ELSE Supplied(Head(frags), path) \o SuppliedByAll(Tail(frags), path)

NoTwoWithSameKey(a) ==
    \A i, j \in 1..Len(a) : i # j => Key(a[i]) # Key(a[j])

\* every entry of a is the trimmed wording of the first supplied entry of its key
FirstSeenWording(a, supplied) ==
    \A i \in 1..Len(a) :
      \E k \in 1..Len(supplied) :
        /\ Key(supplied[k]) = Key(a[i])
        /\ Trim(supplied[k]) = a[i]
        /\ \A h \in 1..(k - 1) : Key(supplied[h]) # Key(a[i])

\* C1: no collection field of merge(list) holds two entries that are equal after
\* trimming and lower-casing, and of such entries the first-seen wording is kept.
C1_CollectionDedup ==
    mpc = "done" =>
      \A path \in CollFields :
        /\ NoTwoWithSameKey(Strings(At(result, path)))
        /\ FirstSeenWording(Strings(At(result, path)), SuppliedByAll(list, path))

\* index of the first fragment that supplies a non-blank string, 0 if none does
FirstNonBlank(frags, path) ==
    LET hits == {k \in 1..Len(frags) :
                   /\ At(frags[k], path).t = "string"
                   /\ \E c \in 1..Len(At(frags[k], path).v) :
                        At(frags[k], path).v[c] \notin Whitespace}
    IN IF hits = {} THEN 0 ELSE CHOOSE k \in hits : \A h \in hits : k <= h

\* C2: every scalar field of merge(list) holds the value of the first fragment, in
\* input order, whose value for it is a non-blank string, and is null exactly when
\* no fragment supplies one.
C2_ScalarFirstWins ==
    mpc = "done" =>
      \A path \in ScalarFields :
        LET k == FirstNonBlank(list, path)
        IN /\ k # 0 => At(result, path) = At(list[k], path)
           /\ k = 0 <=> At(result, path) = JNull

\* C2 witness: two fragments name different non-blank values and the first is kept.
C2_Witness ==
    /\ mpc = "done"
    /\ Len(list) = 2
    /\ \E path \in ScalarFields :
         /\ At(list[1], path) = JStr(Alex)
         /\ At(list[2], path) = JStr(paddedSam)
         /\ At(result, path) = JStr(Alex)

\* number of entries of a with the key of s
CountKey(a, s) == Cardinality({i \in 1..Len(a) : Key(a[i]) = Key(s)})

\* the positions of a, by first appearance of their keys in supplied, ascend
FirstSeenOrder(a, supplied) ==
    LET first(s) == CHOOSE k \in 1..Len(supplied) :
                      /\ Key(supplied[k]) = Key(s)
                      /\ \A h \in 1..(k - 1) : Key(supplied[h]) # Key(s)
    IN \A i, j \in 1..Len(a) : i < j => first(a[i]) < first(a[j])

\* C3: for two fragments, every non-blank entry of either is represented exactly
\* once in the merged field, the merged field holds nothing that comes from
\* neither, and entries keep first-seen order.
C3_Union ==
    (mpc = "done" /\ Len(list) = 2) =>
      \A path \in CollFields :
        LET m == Strings(At(result, path))
            supplied == SuppliedByAll(list, path)
            fromInput == \A i \in 1..Len(m) :
                           \E k \in 1..Len(supplied) : Key(supplied[k]) = Key(m[i])
        IN /\ \A k \in 1..Len(supplied) :
                Trim(supplied[k]) # <<>> => CountKey(m, supplied[k]) = 1
           /\ fromInput
           /\ fromInput => FirstSeenOrder(m, supplied)

(***************************************************************************)
(* History Merger (lib/exportHistory.ts)                                   *)
(***************************************************************************)
Thrown == [t |-> "thrown"]

\* [...x]: the entries of an array, the characters of a string, otherwise a
\* TypeError (x is not iterable)
Iterable(x) == x.t \in {"array", "string"}
Spread(x) ==
    IF x.t = "array" THEN x.v ELSE [k \in 1..Len(x.v) |-> JStr(<<x.v[k]>>)]

\* a loop that compares the items as they are written
RECURSIVE DedupExact(_, _)
DedupExact(combined, seen) ==
    IF combined = <<>> THEN <<>>
    ELSE LET item == Head(combined)
         IN IF item.v \notin seen /\ Len(Trim(item.v)) > 0
            THEN <<item>> \o DedupExact(Tail(combined), seen \cup {item.v})
            ELSE DedupExact(Tail(combined), seen)

\* the for loop of mergeArrays: keeps an item, as it is, when its key
\* item.toLowerCase().trim() is new and the item is not blank
RECURSIVE DedupLoop(_, _)
DedupLoop(combined, seen) ==
    IF combined = <<>> THEN <<>>
    ELSE LET item == Head(combined)
             lower == Trim(ToLowerCase(item.v))
         IN IF lower \notin seen /\ Len(Trim(item.v)) > 0
            THEN <<item>> \o DedupLoop(Tail(combined), seen \cup {lower})
            ELSE DedupLoop(Tail(combined), seen)

\* mergeArrays of exportHistory.ts, called as mergeArrays(merged.x, value || [])
historyMergeArrays(arr1, value) ==
    LET arr2 == IF Falsy(value) THEN JArr(<<>>) ELSE value
    IN IF arr1 = Thrown \/ ~Iterable(arr2) THEN Thrown
       ELSE LET combined == arr1.v \o Spread(arr2)
            IN IF \E k \in 1..Len(combined) : combined[k].t # "string"
               THEN Thrown     \* item.toLowerCase is not a function
               ELSE JArr(DedupLoop(combined, {}))

createEmptyProfile ==
    [profile |->
       [t |-> "object",
        basic |-> [t |-> "object", name |-> JNull, age_range |-> JNull,
                   location |-> JNull, _lastUpdated |-> Undefined],
        preferences |-> [t |-> "object", likes |-> JArr(<<>>),
                         dislikes |-> JArr(<<>>), tone |-> JNull,
                         _lastUpdated |-> Undefined],
        work |-> [t |-> "object", roles |-> JArr(<<>>), industries |-> JArr(<<>>),
                  current_focus |-> JArr(<<>>), _lastUpdated |-> Undefined],
        goals |-> [t |-> "object", short_term |-> JArr(<<>>),
                   long_term |-> JArr(<<>>), _lastUpdated |-> Undefined],
        constraints |-> JArr(<<>>),
        skills |-> JArr(<<>>),
        communication_style |-> JArr(<<>>)],
     t |-> "object",
     _meta |-> [exportCount |-> 0, sources |-> <<>>, oldestExport |-> 0,
                newestExport |-> 0]]

\* if (x) merged.f = x
Overwrite(old, x) == IF Falsy(x) THEN old ELSE x

\* one iteration of the for loop of mergeExports
MergeExport(m, exp) ==
    IF Falsy(Get(exp.profileJson, "profile")) THEN m
    ELSE
      LET p == Get(exp.profileJson, "profile")
          r == m.profile
          basic == Get(p, "basic")
          prefs == Get(p, "preferences")
          work == Get(p, "work")
          goals == Get(p, "goals")
          A(g, f, grp) == historyMergeArrays(r[g][f], Get(grp, f))
          T(f) == historyMergeArrays(r[f], Get(p, f))
          newBasic ==
            IF Falsy(basic) THEN r.basic
            ELSE [t |-> "object",
                  name |-> Overwrite(r.basic.name, Get(basic, "name")),
                  age_range |-> Overwrite(r.basic.age_range, Get(basic, "age_range")),
                  location |-> Overwrite(r.basic.location, Get(basic, "location")),
                  _lastUpdated |->
                    IF \A f \in {"name", "age_range", "location"} : Falsy(Get(basic, f))
                    THEN r.basic._lastUpdated
                    ELSE JNum(exp.timestamp)]
          newPrefs ==
            IF Falsy(prefs) THEN r.preferences
            ELSE [t |-> "object",
                  likes |-> A("preferences", "likes", prefs),
                  dislikes |-> A("preferences", "dislikes", prefs),
                  tone |-> Overwrite(r.preferences.tone, Get(prefs, "tone")),
                  _lastUpdated |-> JNum(exp.timestamp)]
          newWork ==
            IF Falsy(work) THEN r.work
            ELSE [t |-> "object",
                  roles |-> A("work", "roles", work),
                  industries |-> A("work", "industries", work),
                  current_focus |-> A("work", "current_focus", work),
                  _lastUpdated |-> JNum(exp.timestamp)]
          newGoals ==
            IF Falsy(goals) THEN r.goals
            ELSE [t |-> "object",
                  short_term |-> A("goals", "short_term", goals),
                  long_term |-> A("goals", "long_term", goals),
                  _lastUpdated |-> JNum(exp.timestamp)]
          next ==
            [t |-> "object", basic |-> newBasic, preferences |-> newPrefs,
             work |-> newWork, goals |-> newGoals,
             constraints |-> T("constraints"), skills |-> T("skills"),
             communication_style |-> T("communication_style")]
          threw ==
            \/ \E path \in GroupCollFields : next[path[1]][path[2]] = Thrown
            \/ \E f \in TopCollFields : next[f] = Thrown
      IN IF threw THEN Thrown ELSE [m EXCEPT !.profile = next]

RECURSIVE MergeExportsLoop(_, _)
MergeExportsLoop(m, exps) ==
    IF m = Thrown \/ exps = <<>> THEN m
    ELSE MergeExportsLoop(MergeExport(m, Head(exps)), Tail(exps))

\* a bug the sort could have: the records are merged in stored order
SortForgotten(a) == a

\* insertion of e after every record whose timestamp is not greater
RECURSIVE InsertByTimestamp(_, _)
InsertByTimestamp(sorted, e) ==
    IF sorted = <<>> THEN <<e>>
    ELSE IF Head(sorted).timestamp - e.timestamp > 0 THEN <<e>> \o sorted
    ELSE <<Head(sorted)>> \o InsertByTimestamp(Tail(sorted), e)

\* [...a].sort((a, b) => a.timestamp - b.timestamp): ascending and stable
RECURSIVE SortOldestFirst(_)
SortOldestFirst(a) ==
    IF a = <<>> THEN <<>>
    ELSE InsertByTimestamp(SortOldestFirst(SubSeq(a, 1, Len(a) - 1)), a[Len(a)])

\* a selection that is ignored
SelectEverything(all, ids) == all

\* allExports.filter((e) => exportIds.includes(e.id)), or all of them
RECURSIVE SelectExports(_, _)
SelectExports(all, ids) ==
    IF Falsy(ids) THEN all
    ELSE IF all = <<>> THEN <<>>
    ELSE (IF Head(all).id \in ids.v THEN <<Head(all)>> ELSE <<>>)
           \o SelectExports(Tail(all), ids)

mergeExports(allExports, ids) ==
    LET exportsToMerge == SelectExports(allExports, ids)
    IN IF Len(exportsToMerge) = 0 THEN createEmptyProfile
       ELSE LET sorted == SortOldestFirst(exportsToMerge)
                m == MergeExportsLoop(createEmptyProfile, sorted)
            IN IF m = Thrown THEN Thrown
               ELSE [m EXCEPT !._meta =
                       [exportCount |-> Len(exportsToMerge),
                        sources |-> SetOrder([k \in 1..Len(exportsToMerge) |->
                                                exportsToMerge[k].source], {}),
                        oldestExport |-> sorted[1].timestamp,
                        newestExport |-> sorted[Len(sorted)].timestamp]]

(***************************************************************************)
(* Inputs of the History Merger                                            *)
(***************************************************************************)
AI == <<"A", "I">>
ai == <<"a", "i">>
paddedAi == <<" ", "a", "i">>
ML == <<"M", "L">>

\* what a stored profile may hold in a scalar field
StoredScalarPool == {JNull, JStr(Empty), JStr(Blank), JStr(Alex), JStr(Sam)}

\* what a stored profile may hold in a collection field
StoredArrayPool ==
    {JArr(<<JStr(AI)>>), JArr(<<JStr(ML), JStr(ai)>>),
     JArr(<<JStr(paddedAi), JStr(Blank)>>)}

Sources == {"chatgpt", "claude", "gemini", "unknown"}

StoredProfilesOn(path) ==
    {JNull}
      \cup (IF Len(path) = 2 THEN {WithoutGroup(path[1])} ELSE {})
      \cup {WithField(path, x) :
              x \in IF path \in ScalarFields THEN StoredScalarPool
                    ELSE StoredArrayPool}

Timestamps == 1..MaxSessions

\* the capture times of n records: only their order matters to mergeExports, so
\* the times in use are 1, 2, ... without a gap
Stamps(n) ==
    {ts \in [1..n -> Timestamps] :
       \A v \in Timestamps :
         (\E k \in 1..n : ts[k] = v) => \A u \in 1..(v - 1) : \E k \in 1..n : ts[k] = u}

\* the histories of n records whose profiles differ in the field at path; the
\* record at position k has id k
HistoriesOn(path, n) ==
    { [k \in 1..n |-> [id |-> k, timestamp |-> ts[k], source |-> "chatgpt",
                       profileJson |-> ps[k]]] :
        ts \in Stamps(n), ps \in [1..n -> StoredProfilesOn(path)] }

\* the histories of n records that differ in their source alone
HistoriesBySource(n) ==
    { [k \in 1..n |-> [id |-> k, timestamp |-> ts[k], source |-> src[k],
                       profileJson |-> createEmptyProfileJson]] :
        ts \in Stamps(n), src \in [1..n -> Sources] }

IdleHistory ==
    history = <<>> /\ exportIds = Undefined /\ mergedProfile = Undefined /\ hpc = "idle"

InitHistory ==
    /\ hpc = "call"
    /\ mergedProfile = Undefined
    /\ exportIds = Undefined
    /\ \E n \in 0..MaxSessions :
         \/ \E path \in ScalarFields \cup CollFields : history \in HistoriesOn(path, n)
         \/ history \in HistoriesBySource(n)

\* mergeExports(exportIds) with a selection, or mergeExports() with none; the
\* record at position k has id k, so Len(history) + 1 is an id that is not stored
CallMergeExports ==
    /\ hpc = "call"
    /\ \E ids \in {Undefined} \cup {JArr(S) : S \in SUBSET (1..Len(history))}
                   \cup {JArr({Len(history) + 1})}
                   \cup {JArr({k, Len(history) + 1}) : k \in 1..Len(history)} :
         /\ exportIds' = ids
         /\ mergedProfile' = mergeExports(history, ids)
    /\ hpc' = "done"
    /\ UNCHANGED history
    /\ UNCHANGED <<mergeVars, extractVars, chunkVars, uploadVars, apiVars, storeVars>>

NextHistory == CallMergeExports

(***************************************************************************)
(* Claims about the History Merger                                         *)
(***************************************************************************)
\* the records mergeExports was asked to merge
Chosen ==
    {k \in 1..Len(history) : exportIds = Undefined \/ k \in exportIds.v}

NonBlank(x) ==
    x.t = "string" /\ \E c \in 1..Len(x.v) : x.v[c] \notin Whitespace

StoredAt(k, path) == At(history[k].profileJson, path)

Returned == hpc = "done" /\ mergedProfile # Thrown

\* C4: when the merged session with the greatest capture timestamp supplies a
\* non-blank value for a scalar field, mergeSessions returns that value, whatever
\* the stored order and whatever older sessions hold.
C4_NewestWins ==
    Returned =>
      \A path \in ScalarFields : \A k \in Chosen :
        (/\ \A h \in Chosen \ {k} : history[h].timestamp < history[k].timestamp
         /\ NonBlank(StoredAt(k, path)))
          => At(mergedProfile, path) = StoredAt(k, path)

\* C4 witness: the newest session is stored first, an older one with another
\* non-blank value is stored after it, and the newest value is returned.
C4_Witness ==
    /\ Returned
    /\ Chosen = {1, 2}
    /\ history[1].timestamp > history[2].timestamp
    /\ \E path \in ScalarFields :
         /\ StoredAt(1, path) = JStr(Sam)
         /\ StoredAt(2, path) = JStr(Alex)
         /\ At(mergedProfile, path) = JStr(Sam)

\* C5: a session whose value is null, empty or whitespace-only never changes the
\* merged scalar: the result is the value of the most recent session that supplied
\* a non-blank value, and is null only if no merged session supplied one.
C5_BlankNeverOverwrites ==
    Returned =>
      \A path \in ScalarFields :
        LET suppliers == {k \in Chosen : NonBlank(StoredAt(k, path))}
        IN IF suppliers = {} THEN At(mergedProfile, path) = JNull
           ELSE \E k \in suppliers :
                  /\ \A h \in suppliers : history[h].timestamp <= history[k].timestamp
                  /\ At(mergedProfile, path) = StoredAt(k, path)

\* C20: for sessions stored in ascending timestamp order and merged all together,
\* every collection field of mergeSessions(sessions) is identical (entries,
\* wording, order) to the same field of merge of the sessions' profiles in that
\* order.
C20_SameCollectionRule ==
    (/\ Returned /\ exportIds = Undefined
     /\ \A k \in 1..(Len(history) - 1) :
          history[k].timestamp < history[k + 1].timestamp) =>
        \A path \in CollFields :
          At(mergedProfile, path)
            = At(mergeProfileJsons([k \in 1..Len(history) |->
                                      history[k].profileJson]), path)

\* the chosen sessions that supply an entry with the key of s for the field
SuppliersOf(s, path) ==
    {k \in Chosen :
       \E e \in 1..Len(Supplied(history[k].profileJson, path)) :
         Key(Supplied(history[k].profileJson, path)[e]) = Key(s)}

\* C21: no collection field of the mergeSessions result holds two entries that
\* are equal after trimming and lower-casing, and each entry kept is worded as in
\* a chronologically earliest session among those that supply its key.
C21_HistoryDedup ==
    Returned =>
      \A path \in CollFields :
        LET m == Strings(At(mergedProfile, path))
        IN /\ NoTwoWithSameKey(m)
           /\ \A i \in 1..Len(m) :
                \E k \in SuppliersOf(m[i], path) :
                  /\ \A h \in SuppliersOf(m[i], path) :
                       history[k].timestamp <= history[h].timestamp
                  /\ \E e \in 1..Len(Supplied(history[k].profileJson, path)) :
                       Supplied(history[k].profileJson, path)[e] = m[i]

\* C21 witness: Scenario D with the later session stored first: likes ["ML","ai"]
\* at T2 and ["AI"] at T1 are merged into ["AI","ML"].
C21_Witness ==
    /\ Returned
    /\ Chosen = {1, 2}
    /\ history[1].timestamp > history[2].timestamp
    /\ StoredAt(1, <<"preferences", "likes">>) = JArr(<<JStr(ML), JStr(ai)>>)
    /\ StoredAt(2, <<"preferences", "likes">>) = JArr(<<JStr(AI)>>)
    /\ Strings(At(mergedProfile, <<"preferences", "likes">>)) = <<AI, ML>>

\* a non-empty string without leading or trailing whitespace
CleanEntry(x) == x.t = "string" /\ x.v # <<>> /\ Trim(x.v) = x.v

CleanCollections(profile) ==
    \A path \in CollFields :
      /\ At(profile, path).t = "array"
      /\ \A k \in 1..Len(At(profile, path).v) : CleanEntry(At(profile, path).v[k])

\* C22: every entry of every collection field in the output of merge and of
\* mergeSessions is a non-empty string with no leading or trailing whitespace,
\* also when entries arrive padded with whitespace.
C22_CleanEntries ==
    /\ mpc = "done" => CleanCollections(result)
    /\ Returned => CleanCollections(mergedProfile)

\* the history that holds only the records of h whose id is in S
Only(h, S) ==
    LET RECURSIVE Keep(_)
        Keep(k) ==
          IF k > Len(h) THEN <<>>
          ELSE (IF h[k].id \in S THEN <<h[k]>> ELSE <<>>) \o Keep(k + 1)
    IN Keep(1)

\* C23: mergeSessions(H, S) returns the profile and the summary metadata that
\* mergeSessions returns, with no selection, over the history that holds only the
\* records of H whose id is in S.
C23_SubsetSelection ==
    (hpc = "done" /\ exportIds # Undefined) =>
      mergedProfile = mergeExports(Only(history, exportIds.v), Undefined)

\* C23 witness: of two stored sessions the second one is selected, together with
\* an id that is not stored, and the summary counts one session.
C23_Witness ==
    /\ hpc = "done"
    /\ Len(history) = 2
    /\ exportIds = JArr({2, 3})
    /\ mergedProfile._meta.exportCount = 1
    /\ mergedProfile._meta.sources = <<history[2].source>>
    /\ history[1].source # history[2].source

(***************************************************************************)
(* Claims about merging twice and merging in another order                 *)
(***************************************************************************)
\* the entries of a, trimmed, without the blank ones, and of several with the
\* same key only the first
RECURSIVE NormalizedEntries(_, _)
NormalizedEntries(a, seen) ==
    IF a = <<>> THEN <<>>
    ELSE IF Trim(Head(a)) = <<>> \/ Key(Head(a)) \in seen
    THEN NormalizedEntries(Tail(a), seen)
    ELSE <<Trim(Head(a))>> \o NormalizedEntries(Tail(a), seen \cup {Key(Head(a))})

\* C18: merge([f]) is f normalized (collection entries trimmed, blanks dropped,
\* duplicates removed, blank scalars null), and merging a merged profile again
\* changes nothing: merge([merge(L)]) = merge(L).
C18_Idempotence ==
    mpc = "done" =>
      /\ mergeProfileJsons(<<result>>) = result
      /\ Len(list) = 1 =>
           /\ \A path \in CollFields :
                Strings(At(result, path))
                  = NormalizedEntries(Supplied(list[1], path), {})
           /\ \A path \in ScalarFields :
                At(result, path) = IF NonBlank(At(list[1], path))
                                   THEN At(list[1], path) ELSE JNull

\* the collection fields of a profile
Collections(profile) == [path \in CollFields |-> Strings(At(profile, path))]

\* the entries of every collection field of a profile, as sets
EntrySets(profile) ==
    LET c == Collections(profile)
    IN [path \in CollFields |-> {c[path][k] : k \in 1..Len(c[path])}]

\* C19: for three fragments, merging the first two and then the third, merging
\* the first with the merge of the last two, and merging all three at once give
\* the same collection fields; and merging two fragments in either order gives
\* the same set of entries in every collection field.
C19_Associative ==
    (mpc = "done" /\ Len(list) = 3) =>
      /\ Collections(mergeProfileJsons(
              <<mergeProfileJsons(<<list[1], list[2]>>), list[3]>>))
           = Collections(result)
      /\ Collections(mergeProfileJsons(
              <<list[1], mergeProfileJsons(<<list[2], list[3]>>)>>))
           = Collections(result)
      /\ EntrySets(mergeProfileJsons(<<list[1], list[2]>>))
           = EntrySets(mergeProfileJsons(<<list[2], list[1]>>))

\* C19 witness: three fragments supply entries for one field, the second repeats
\* an entry of the first and brings a new one first, the third brings one more,
\* and the merged field holds the three of them.
C19_Witness ==
    /\ mpc = "done" /\ Len(list) = 3
    /\ \E path \in CollFields :
         /\ Supplied(list[1], path) = <<Python>>
         /\ Supplied(list[2], path) = <<python, Python>>
         /\ Supplied(list[3], path) = <<paddedGo, python>>
         /\ Strings(At(result, path)) = <<Python, python, Go>>
         /\ At(mergeProfileJsons(<<list[1],
                                   mergeProfileJsons(<<list[2], list[3]>>)>>), path)
              = At(result, path)

(***************************************************************************)
(* Extractor (lib/ingest/extractFromChunks.ts)                             *)
(***************************************************************************)
\* a chunk, as far as the Extractor looks at it: whether the work-heavy keyword
\* pattern matches its text
ChunkKinds == [workHeavy : BOOLEAN]

\* what JSON.parse can make of the content of a completion
ParsedPool ==
    {WithField(<<"basic", "name">>, JStr(Alex)),
     WithField(<<"skills">>, JArr(<<JStr(Python)>>)),
     JNull,
     [t |-> "object", answer |-> JStr(Alex)],
     WithField(<<"basic", "name">>, JNum(7)),
     WithField(<<"skills">>, JStr(Python)),
     WithField(<<"skills">>, JArr(<<JNum(7)>>)),
     [t |-> "object",
      profile |-> [createEmptyProfileJson.profile EXCEPT
                     !.basic.name = JNum(7), !.skills = JArr(<<JStr(Python)>>)]]}

\* what one call of openai.chat.completions.create can come to: the call throws
\* (network error, timeout), the completion holds no content, its content does
\* not parse, or its content parses to a value
Outcomes ==
    {[kind |-> "throws"], [kind |-> "noContent"], [kind |-> "malformed"]}
      \cup {[kind |-> "parsed", value |-> v] : v \in ParsedPool}

\* a bug push could have: the new entry goes to the front
PushFront(a, x) == <<x>> \o a

\* Array.prototype.push
Push(a, x) == Append(a, x)

IdleExtract ==
    /\ chunks = <<>> /\ idx = 0 /\ partials = <<>> /\ origins = <<>> /\ calls = <<>>
    /\ used = 0 /\ extracted = Undefined /\ epc = "idle"

InitExtract ==
    /\ chunks \in SeqsUpTo(ChunkKinds, MaxChunkCount)
    /\ idx = 0 /\ partials = <<>> /\ origins = <<>> /\ calls = <<>>
    /\ used = 0 /\ extracted = Undefined /\ epc = "start"

\* lines 126-136: no chunks returns the empty profile, otherwise the loop starts
ExtractStart ==
    /\ epc = "start"
    /\ IF Len(chunks) = 0
       THEN /\ extracted' = [profileJson |-> createEmptyProfileJson,
                             chunkCount |-> 0, usedChunks |-> 0]
            /\ epc' = "returned"
            /\ idx' = idx
       ELSE /\ idx' = 1
            /\ epc' = "general"
            /\ extracted' = extracted
    /\ UNCHANGED <<chunks, partials, origins, calls, used>>
    /\ UNCHANGED <<mergeVars, historyVars, chunkVars, uploadVars, apiVars, storeVars>>

\* what follows the handling of a completion: content that parses is pushed and
\* counted, anything else is dropped
Handle(o, pass) ==
    IF o.kind = "parsed"
    THEN /\ partials' = Push(partials, o.value)
         /\ origins' = Push(origins, [chunk |-> idx, pass |-> pass])
         /\ used' = used + 1
    ELSE UNCHANGED <<partials, origins, used>>

\* the loop moves to the next chunk, or leaves for the merge
Advance ==
    IF idx + 1 <= Len(chunks)
    THEN idx' = idx + 1 /\ epc' = "general"
    ELSE idx' = idx /\ epc' = "merge"

\* lines 142-178: the general pass on chunk idx
GeneralCall ==
    /\ epc = "general"
    /\ calls' = Append(calls, [chunk |-> idx, pass |-> "general"])
    /\ \E o \in Outcomes :
         IF o.kind = "throws"
         THEN \* the await rejects and nothing catches it
              /\ epc' = "rejected"
              /\ UNCHANGED <<idx, partials, origins, used>>
         ELSE /\ Handle(o, "general")
              /\ IF chunks[idx].workHeavy
                 THEN idx' = idx /\ epc' = "work"
                 ELSE Advance
    /\ UNCHANGED <<chunks, extracted>>
    /\ UNCHANGED <<mergeVars, historyVars, chunkVars, uploadVars, apiVars, storeVars>>

\* lines 178-208: the work-focused pass on a work-heavy chunk idx
WorkCall ==
    /\ epc = "work"
    /\ calls' = Append(calls, [chunk |-> idx, pass |-> "work"])
    /\ \E o \in Outcomes :
         IF o.kind = "throws"
         THEN /\ epc' = "rejected"
              /\ UNCHANGED <<idx, partials, origins, used>>
         ELSE /\ Handle(o, "work")
              /\ Advance
    /\ UNCHANGED <<chunks, extracted>>
    /\ UNCHANGED <<mergeVars, historyVars, chunkVars, uploadVars, apiVars, storeVars>>

\* lines 211-217: merge and return
ExtractReturn ==
    /\ epc = "merge"
    /\ extracted' = [profileJson |-> mergeProfileJsons(partials),
                     chunkCount |-> Len(chunks), usedChunks |-> used]
    /\ epc' = "returned"
    /\ UNCHANGED <<chunks, idx, partials, origins, calls, used>>
    /\ UNCHANGED <<mergeVars, historyVars, chunkVars, uploadVars, apiVars, storeVars>>

NextExtract == ExtractStart \/ GeneralCall \/ WorkCall \/ ExtractReturn

(***************************************************************************)
(* Claims about the Extractor                                              *)
(***************************************************************************)
\* C6: a failed completion-service call (it throws, returns no content, or returns
\* content that does not parse) never makes extract reject, and extract still
\* issues the general call of every chunk before it returns.
C6_FailureIsolation ==
    /\ epc # "rejected"
    /\ epc = "returned" =>
         \A k \in 1..Len(chunks) :
           \E c \in 1..Len(calls) : calls[c] = [chunk |-> k, pass |-> "general"]

\* C7: the fragments handed to the Profile Merger are in ascending chunk order,
\* and the general-pass fragment of a chunk comes immediately before its
\* secondary-pass fragment.
C7_FragmentOrder ==
    /\ Len(origins) = Len(partials)
    /\ \A a, b \in 1..Len(origins) :
         a < b =>
           \/ origins[a].chunk < origins[b].chunk
           \/ /\ origins[a].chunk = origins[b].chunk
              /\ origins[a].pass = "general"
              /\ origins[b].pass = "work"
              /\ b = a + 1

\* C7 witness: two work-heavy chunks, the general fragment of the second one is
\* dropped, and the three fragments left are merged in order.
C7_Witness ==
    /\ epc = "returned"
    /\ Len(calls) = 4
    /\ origins = <<[chunk |-> 1, pass |-> "general"], [chunk |-> 1, pass |-> "work"],
                   [chunk |-> 2, pass |-> "work"]>>
    /\ extracted.profileJson = mergeProfileJsons(partials)

\* C8: chunkCount is the number of chunks attempted, usedChunks the number of
\* those chunks that yielded a usable fragment, so 0 <= usedChunks <= chunkCount.
C8_Counts ==
    epc = "returned" =>
      /\ extracted.chunkCount = Len(chunks)
      /\ extracted.usedChunks =
           Cardinality({origins[k].chunk : k \in 1..Len(origins)})
      /\ 0 <= extracted.usedChunks
      /\ extracted.usedChunks <= extracted.chunkCount

\* a value with exactly the fields of the schema, whose scalars are strings or
\* null and whose collections are arrays of strings
SchemaShaped(v) ==
    /\ v.t = "object" /\ DOMAIN v = {"t", "profile"}
    /\ v.profile.t = "object"
    /\ DOMAIN v.profile = DOMAIN createEmptyProfileJson.profile
    /\ \A g \in {"basic", "preferences", "work", "goals"} :
         /\ v.profile[g].t = "object"
         /\ DOMAIN v.profile[g] = DOMAIN createEmptyProfileJson.profile[g]
    /\ \A path \in ScalarFields : At(v, path).t \in {"string", "null"}
    /\ \A path \in CollFields :
         /\ At(v, path).t = "array"
         /\ \A k \in 1..Len(At(v, path).v) : At(v, path).v[k].t = "string"

\* the schema-shaped entries of a list of parsed responses, in order
RECURSIVE OnlySchemaShaped(_)
OnlySchemaShaped(l) ==
    IF l = <<>> THEN <<>>
    ELSE (IF SchemaShaped(Head(l)) THEN <<Head(l)>> ELSE <<>>)
           \o OnlySchemaShaped(Tail(l))

\* C27: whatever the completion service returns, the profile extract returns has
\* exactly the fields of the schema, every scalar a string or null and every
\* collection an array of non-empty strings, and a response that is not
\* schema-shaped contributes nothing to it.
C27_SchemaShapedOutput ==
    epc = "returned" =>
      /\ SchemaShaped(extracted.profileJson)
      /\ \A path \in CollFields :
           \A k \in 1..Len(At(extracted.profileJson, path).v) :
             At(extracted.profileJson, path).v[k].v # <<>>
      /\ extracted.profileJson = mergeProfileJsons(OnlySchemaShaped(partials))

(***************************************************************************)
(* Chunker (lib/ingest/chunkText.ts)                                       *)
(***************************************************************************)
\* a normalisation that leaves every carriage return in place
ReplaceNothing(s) == s

\* input.replace(/\r\n/g, "\n")
RECURSIVE ReplaceCRLF(_)
ReplaceCRLF(s) ==
    IF s = <<>> THEN <<>>
    ELSE IF Len(s) >= 2 /\ s[1] = "CR" /\ s[2] = "LF"
         THEN <<"LF">> \o ReplaceCRLF(SubSeq(s, 3, Len(s)))
         ELSE <<Head(s)>> \o ReplaceCRLF(Tail(s))

\* a bug the search could have: the last paragraph break of the whole text
LastParaBreakAnywhere(s, fromIndex) ==
    LET hits == {p \in 0..(Len(s) - 2) : s[p + 1] = "LF" /\ s[p + 2] = "LF"}
    IN IF hits = {} THEN -1 ELSE CHOOSE p \in hits : \A q \in hits : q <= p

\* s.lastIndexOf("\n\n", fromIndex): the greatest 0-based index not above
\* fromIndex at which a double line break starts, or -1
LastParaBreak(s, fromIndex) ==
    LET hits == {p \in 0..(Len(s) - 2) :
                   p <= fromIndex /\ s[p + 1] = "LF" /\ s[p + 2] = "LF"}
    IN IF hits = {} THEN -1 ELSE CHOOSE p \in hits : \A q \in hits : q <= p

\* a slice that always starts at the beginning of the text
SliceFromZero(s, from, to) == SubSeq(s, 1, to)

\* s.slice(from, to) for 0 <= from <= to <= s.length
Slice(s, from, to) == SubSeq(s, from + 1, to)

\* an end that is moved back to the last paragraph break wherever there is one
EndAtAnyParaBreak(s, from, budget) ==
    IF from + budget > Len(s) THEN Len(s)
    ELSE LET lastParaBreak == LastParaBreak(s, from + budget)
         IN IF lastParaBreak >= 0 THEN lastParaBreak ELSE from + budget

\* the end of the slice that starts at start: lines 24-33
\* (lastParaBreak > start + maxCharsPerChunk * 0.3, in tenths)
EndOf(s, from, budget) ==
    IF from + budget > Len(s) THEN Len(s)
    ELSE LET lastParaBreak == LastParaBreak(s, from + budget)
         IN IF 10 * lastParaBreak > 10 * from + 3 * budget
            THEN lastParaBreak
            ELSE from + budget

TextChars == {"a", "LF", "CR"}

IdleChunk ==
    /\ input = <<>> /\ maxCharsPerChunk = 0 /\ maxChunks = 0 /\ text = <<>>
    /\ start = 0 /\ chunkList = <<>> /\ slices = <<>> /\ chunked = <<>>
    /\ cpc = "idle"

InitChunk ==
    /\ input \in SeqsUpTo(TextChars, MaxTextLen)
    /\ maxCharsPerChunk \in 1..MaxBudget
    /\ maxChunks \in 0..MaxCap
    /\ text = <<>> /\ start = 0 /\ chunkList = <<>> /\ slices = <<>>
    /\ chunked = <<>>
    /\ cpc = "call"

\* lines 15-21: normalize, return early for an empty or a short text
ChunkCall ==
    /\ cpc = "call"
    /\ text' = Trim(ReplaceCRLF(input))
    /\ IF Len(text') = 0
       THEN chunked' = <<>> /\ cpc' = "returned"
       ELSE IF Len(text') <= maxCharsPerChunk
       THEN chunked' = <<text'>> /\ cpc' = "returned"
       ELSE chunked' = chunked /\ cpc' = "loop"
    /\ UNCHANGED <<input, maxCharsPerChunk, maxChunks, start, chunkList, slices>>
    /\ UNCHANGED <<mergeVars, historyVars, extractVars, uploadVars, apiVars, storeVars>>

\* lines 23-40: one iteration of the while loop
ChunkLoop ==
    /\ cpc = "loop"
    /\ start < Len(text) /\ Len(chunkList) < maxChunks
    /\ LET end == EndOf(text, start, maxCharsPerChunk)
           chunk == Trim(Slice(text, start, end))
       IN /\ chunkList' = IF Len(chunk) > 0 THEN Push(chunkList, chunk) ELSE chunkList
          /\ slices' = Append(slices, [start |-> start, end |-> end,
                                       pushed |-> Len(chunk) > 0])
          /\ start' = end
    /\ UNCHANGED <<input, maxCharsPerChunk, maxChunks, text, chunked, cpc>>
    /\ UNCHANGED <<mergeVars, historyVars, extractVars, uploadVars, apiVars, storeVars>>

\* lines 23, 42: the loop condition fails and chunks is returned
ChunkReturn ==
    /\ cpc = "loop"
    /\ ~(start < Len(text) /\ Len(chunkList) < maxChunks)
    /\ chunked' = chunkList
    /\ cpc' = "returned"
    /\ UNCHANGED <<input, maxCharsPerChunk, maxChunks, text, start, chunkList, slices>>
    /\ UNCHANGED <<mergeVars, historyVars, extractVars, uploadVars, apiVars, storeVars>>

NextChunk == ChunkCall \/ ChunkLoop \/ ChunkReturn

(***************************************************************************)
(* Claims about the Chunker                                                *)
(***************************************************************************)
\* C9: chunk(text, maxCharsPerChunk, K) returns at most K elements, for every
\* maxCharsPerChunk >= 1 and every K >= 0.
C9_ChunkBound == cpc = "returned" => Len(chunked) <= maxChunks

\* C10: every string chunk returns is at most maxCharsPerChunk long, whether its
\* end was moved back to a paragraph boundary or hard-cut.
C10_ChunkSize ==
    /\ \A k \in 1..Len(chunkList) : Len(chunkList[k]) <= maxCharsPerChunk
    /\ cpc = "returned" =>
         \A k \in 1..Len(chunked) : Len(chunked[k]) <= maxCharsPerChunk

\* C10 witness: of the chunks returned, one ends at a paragraph boundary before
\* the budget and one is a hard cut of the full budget.
C10_Witness ==
    /\ cpc = "returned"
    /\ \E k \in 1..Len(slices) :
         /\ slices[k].pushed
         /\ slices[k].end < slices[k].start + maxCharsPerChunk
         /\ slices[k].end < Len(text)
    /\ \E k \in 1..Len(slices) :
         /\ slices[k].end = slices[k].start + maxCharsPerChunk
         /\ \E c \in 1..Len(chunked) : Len(chunked[c]) = maxCharsPerChunk

\* the characters of s at the positions in keep, in order
RECURSIVE Kept(_, _, _)
Kept(s, keep, k) ==
    IF k > Len(s) THEN <<>>
    ELSE (IF k \in keep THEN <<s[k]>> ELSE <<>>) \o Kept(s, keep, k + 1)

\* the normalized form of s, stated by position: every carriage return that a
\* line feed follows is dropped, then what lies between the first and the
\* last non-whitespace character is kept
NormalForm(s) ==
    LET keep == {k \in 1..Len(s) :
                   ~(s[k] = "CR" /\ k < Len(s) /\ s[k + 1] = "LF")}
        u == Kept(s, keep, 1)
        solid == {k \in 1..Len(u) : u[k] \notin Whitespace}
    IN IF solid = {} THEN <<>>
       ELSE SubSeq(u, CHOOSE k \in solid : \A m \in solid : k <= m,
                      CHOOSE k \in solid : \A m \in solid : k >= m)

\* the non-empty trimmed contents of the slices sl of t, in order
RECURSIVE TrimmedContents(_, _)
TrimmedContents(t, sl) ==
    IF sl = <<>> THEN <<>>
    ELSE LET body == Trim(SubSeq(t, Head(sl).start + 1, Head(sl).end))
         IN (IF body = <<>> THEN <<>> ELSE <<body>>)
            \o TrimmedContents(t, Tail(sl))

\* C11: for a text longer than the budget the chunks returned are, in order,
\* the non-empty trimmed contents of consecutive, non-overlapping, gap-free
\* slices [start,end) of the normalized text that begin at position 0; with
\* fewer than maxChunks chunks the slices reach the end of the text, and no
\* slice is cut after the one of the maxChunks-th chunk.
C11_ChunkCoverage ==
    (cpc = "returned" /\ Len(NormalForm(input)) > maxCharsPerChunk) =>
        /\ \A k \in 1..Len(slices) :
              /\ slices[k].start = (IF k = 1 THEN 0 ELSE slices[k - 1].end)
              /\ slices[k].start < slices[k].end
              /\ slices[k].end <= Len(NormalForm(input))
        /\ chunked = TrimmedContents(NormalForm(input), slices)
        /\ Len(chunked) < maxChunks =>
              /\ slices # <<>>
              /\ slices[Len(slices)].end = Len(NormalForm(input))
        /\ (Len(chunked) = maxChunks /\ slices # <<>>) =>
              slices[Len(slices)].pushed

\* C11 witness: a long text was cut into slices of which one held only
\* whitespace, and the cap stopped the cutting before the end of the text.
C11_Witness ==
    /\ cpc = "returned"
    /\ Len(NormalForm(input)) > maxCharsPerChunk
    /\ Len(chunked) = maxChunks /\ maxChunks >= 2
    /\ \E k \in 1..Len(slices) : ~slices[k].pushed
    /\ slices[Len(slices)].end < Len(text)

\* C12: empty or whitespace-only text yields the empty sequence; a text whose
\* normalized form is non-empty and no longer than maxCharsPerChunk yields
\* exactly one chunk, that normalized text.
C12_ShortInputs ==
    cpc = "returned" =>
        /\ (\A k \in 1..Len(input) : input[k] \in Whitespace) => chunked = <<>>
        /\ (NormalForm(input) # <<>>
             /\ Len(NormalForm(input)) <= maxCharsPerChunk) =>
              chunked = <<NormalForm(input)>>

\* C12 witness: a short text with a CRLF inside and whitespace around it came
\* back as its one normalized chunk.
C12_Witness ==
    /\ cpc = "returned"
    /\ chunked = <<NormalForm(input)>>
    /\ Len(NormalForm(input)) < Len(input) - 1
    /\ \E k \in 2..Len(input) - 2 :
          /\ input[k] = "CR" /\ input[k + 1] = "LF"
          /\ input[k - 1] = "a" /\ input[k + 2] = "a"
    /\ input[1] \in Whitespace

\* C26: chunk terminates for every text, every maxCharsPerChunk >= 1 and every
\* maxChunks >= 0, and every iteration of its loop strictly increases start, also
\* when the end is moved back to a paragraph boundary and when the slice trims to
\* nothing and is discarded.
C26_ChunkTerminates ==
    /\ [][slices' # slices => start' > start]_vars
    /\ <>(cpc = "returned")

\* C26 witness: chunk returned after a loop in which one slice ended at a
\* paragraph boundary before the budget and one slice was discarded as blank.
C26_Witness ==
    /\ cpc = "returned"
    /\ \E k \in 1..Len(slices) :
         /\ slices[k].end < slices[k].start + maxCharsPerChunk
         /\ slices[k].end < Len(text)
    /\ \E k \in 1..Len(slices) : ~slices[k].pushed

(***************************************************************************)
(* Format Detector and Parsers (lib/parsers, lib/parseFiles.ts)            *)
(*                                                                         *)
(* A file is a record: name (one token), type (the MIME type), raw (the    *)
(* text file.text() gives), json (what JSON.parse makes of raw) and        *)
(* entries (the files inside, for a ZIP).  Every fixed piece of a header   *)
(* is one token.  A timestamp is a number, 0 when the field is absent; a    *)
(* date a parser prints is the token of that number.                       *)
(***************************************************************************)
\* the extension lower.endsWith(...) sees in the names of the model
Ext(name) ==
    CASE name = "export.zip" -> "zip"
      [] name \in {"chat.json", "claude.json", "conversations.json",
                   "other.json"} -> "json"
      [] name = "turns.jsonl" -> "jsonl"
      [] name = "notes.txt" -> "txt"
      [] name = "notes.md" -> "md"
      [] OTHER -> "none"

\* file.type.startsWith("text/")
TypeIsText(file) == file.type = "text/plain"

\* String.prototype.toUpperCase on the role tokens
ToUpperCase(s) ==
    [k \in 1..Len(s) |->
       CASE s[k] = "user" -> "USER"
         [] s[k] = "assistant" -> "ASSISTANT"
         [] s[k] = "system" -> "SYSTEM"
         [] s[k] = "tool" -> "TOOL"
         [] OTHER -> s[k]]

\* Array.prototype.join
RECURSIVE Join(_, _)
Join(parts, sep) ==
    IF parts = <<>> THEN <<>>
    ELSE IF Len(parts) = 1 THEN parts[1]
    ELSE parts[1] \o sep \o Join(Tail(parts), sep)

\* the characters of a conversation as JSON text
RECURSIVE EncodeMessages(_)
EncodeMessages(msgs) ==
    IF msgs = <<>> THEN <<>>
    ELSE <<"{", Head(msgs).role, ":">> \o Head(msgs).content
           \o (IF Head(msgs).timestamp # 0 THEN <<"@", Digit(Head(msgs).timestamp)>>
               ELSE <<>>)
           \o <<"}">> \o EncodeMessages(Tail(msgs))

EncodeConversation(conv) ==
    <<"{", conv.title>>
      \o (IF conv.created_at THEN <<"created_at">> ELSE <<>>)
      \o (IF conv.updated_at THEN <<"updated_at">> ELSE <<>>)
      \o <<conv.shape, "[">> \o EncodeMessages(conv.messages) \o <<"]", "}">>

RECURSIVE EncodeConversations(_)
EncodeConversations(convs) ==
    IF convs = <<>> THEN <<>>
    ELSE EncodeConversation(Head(convs)) \o EncodeConversations(Tail(convs))

\* the text of a JSON value: JSON.stringify, and the raw text it was read from
Encode(json) ==
    CASE json.k = "malformed" -> json.raw
      [] json.k = "array" -> <<"[">> \o EncodeConversations(json.convs) \o <<"]">>
      [] json.k = "wrapped" ->
           <<"{", "conversations", "[">> \o EncodeConversations(json.convs)
             \o <<"]", "}">>
      [] json.k = "single" -> EncodeConversation(json.conv)
      [] OTHER -> <<"{", "}">>

\* detect.ts, lines 163-177 of chatgpt.ts
detectProvider(fs) ==
    IF Len(fs) = 0 THEN "unknown"
    ELSE IF \E k \in 1..Len(fs) : Ext(fs[k].name) = "zip" THEN "chatgpt"
    ELSE "plaintext"

\* plaintext.ts, lines 192-197 of chatgpt.ts
isTextLike(file) ==
    TypeIsText(file) \/ Ext(file.name) \in {"txt", "md", "json", "log"}

RECURSIVE PlaintextParts(_)
PlaintextParts(fs) ==
    IF fs = <<>> THEN <<>>
    ELSE (IF isTextLike(Head(fs))
          THEN <<<<"LF", "LF", "=== FILE: ", Head(fs).name, " ===", "LF">>
                   \o Head(fs).raw>>
          ELSE <<>>)
         \o PlaintextParts(Tail(fs))

PlaintextSentinel == <<"No readable text content found in uploaded files.">>

\* plaintext.ts, lines 186-210 of chatgpt.ts
parsePlaintextFiles(fs) ==
    LET parts == PlaintextParts(fs)
    IN IF Len(parts) = 0 THEN PlaintextSentinel ELSE Join(parts, <<"LF">>)

\* insertion of m after every message whose time is not greater
RECURSIVE InsertByTime(_, _)
InsertByTime(sorted, m) ==
    IF sorted = <<>> THEN <<m>>
    ELSE IF Head(sorted).timestamp - m.timestamp > 0 THEN <<m>> \o sorted
    ELSE <<Head(sorted)>> \o InsertByTime(Tail(sorted), m)

\* messages.sort((a, b) => time(a) - time(b)) with an absent time read as 0:
\* ascending and stable
RECURSIVE SortByTime(_)
SortByTime(msgs) ==
    IF msgs = <<>> THEN <<>>
    ELSE InsertByTime(SortByTime(SubSeq(msgs, 1, Len(msgs) - 1)), msgs[Len(msgs)])

\* ` (${new Date(timestamp).toLocaleString()})`, nothing for an absent time
TimeStr(timestamp) ==
    IF timestamp = 0 THEN <<>> ELSE <<" (", Digit(timestamp), ")">>

\* lines 75-115 and 119-135: the lines of the messages of one conversation;
\* a system or tool message, an empty content and a blank text are skipped
RECURSIVE ChatGPTMessageLines(_)
ChatGPTMessageLines(msgs) ==
    IF msgs = <<>> THEN <<>>
    ELSE LET msg == Head(msgs)
             skip == \/ msg.role \in {"system", "tool"}
                     \/ Trim(msg.content) = <<>>
         IN (IF skip THEN <<>>
             ELSE <<ToUpperCase(<<msg.role>>) \o <<": ">> \o msg.content>>)
            \o ChatGPTMessageLines(Tail(msgs))

\* lines 60-137: the header of every conversation and the lines of its messages;
\* the nodes of a mapping are sorted by create_time, a messages array is not
RECURSIVE ChatGPTLines(_)
ChatGPTLines(convs) ==
    IF convs = <<>> THEN <<>>
    ELSE <<<<"LF", "LF", "===== Conversation: ", Head(convs).title, " =====",
             "LF">>>>
           \o ChatGPTMessageLines(IF Head(convs).shape = "mapping"
                                  THEN SortByTime(Head(convs).messages)
                                  ELSE Head(convs).messages)
           \o ChatGPTLines(Tail(convs))

\* zip.file(name): the entry of that path, or null
ZipFile(zip, name) ==
    LET hits == {k \in 1..Len(zip.entries) : zip.entries[k].name = name}
    IN IF hits = {} THEN JNull
       ELSE zip.entries[CHOOSE k \in hits : \A m \in hits : k <= m]

\* lines 10-25: the first of the possible names the archive holds
RECURSIVE FirstPresent(_, _)
FirstPresent(zip, names) ==
    IF names = <<>> THEN JNull
    ELSE IF ZipFile(zip, Head(names)) # JNull THEN ZipFile(zip, Head(names))
    ELSE FirstPresent(zip, Tail(names))

\* lines 30-40: every .json entry under its header
RECURSIVE JsonDump(_)
JsonDump(es) ==
    IF es = <<>> THEN <<>>
    ELSE (IF Ext(Head(es).name) = "json"
          THEN <<<<"LF", "LF", "=== JSON FILE: ", Head(es).name, " ===", "LF">>
                   \o Head(es).raw>>
          ELSE <<>>)
         \o JsonDump(Tail(es))

ChatGPTNoFile ==
    <<"No conversations.json or messages.json found in ChatGPT export.">>
ChatGPTNoMessages ==
    <<"ChatGPT export parsed, but no usable messages were found.">>

\* chatgpt.ts, lines 8-144
parseChatGPTZip(zip) ==
    LET conversationsFile ==
          FirstPresent(zip, <<"conversations.json", "messages.json",
                              "data/conversations.json", "data/messages.json">>)
    IN IF conversationsFile = JNull
       THEN IF JsonDump(zip.entries) = <<>> THEN ChatGPTNoFile
            ELSE Join(JsonDump(zip.entries), <<"LF">>)
       ELSE IF conversationsFile.json.k # "array" THEN conversationsFile.raw
       ELSE LET lines == ChatGPTLines(conversationsFile.json.convs)
            IN IF Len(lines) = 0 THEN ChatGPTNoMessages
               ELSE Join(lines, <<"LF">>)

\* the messages parseClaudeConversation and parseGeminiConversation find: those
\* under conv.messages; a conversation kept under mapping shows them none
MessagesOf(conv) == IF conv.shape = "messages" THEN conv.messages ELSE <<>>

\* claude.ts, lines 108-121: sender and text of every message whose text is truthy
RECURSIVE ClaudeMessageParts(_)
ClaudeMessageParts(msgs) ==
    IF msgs = <<>> THEN <<>>
    ELSE (IF Head(msgs).content # <<>>
          THEN <<ToUpperCase(<<Head(msgs).role>>) \o TimeStr(Head(msgs).timestamp)
                   \o <<":">>,
                 Head(msgs).content, <<>>>>
          ELSE <<>>)
         \o ClaudeMessageParts(Tail(msgs))

\* the lines Created: and Updated: of a conversation that has the fields
DateParts(conv) ==
    (IF conv.created_at THEN <<<<"Created: ", "date">>>> ELSE <<>>)
      \o (IF conv.updated_at THEN <<<<"Updated: ", "date">>>> ELSE <<>>)

\* claude.ts, lines 73-124; null when only the title and the separator are there
parseClaudeConversation(conv) ==
    LET parts == <<<<"LF", "=== CONVERSATION: ", conv.title, " ===">>>>
                   \o DateParts(conv) \o <<<<"LF">>>>
                   \o ClaudeMessageParts(SortByTime(MessagesOf(conv)))
    IN IF Len(parts) > 3 THEN JStr(Join(parts, <<"LF">>)) ELSE JNull

\* claude.ts, lines 27-30: the conversations that parse to a string, in order
RECURSIVE ClaudeParsed(_)
ClaudeParsed(convs) ==
    IF convs = <<>> THEN <<>>
    ELSE (IF parseClaudeConversation(Head(convs)) # JNull
          THEN <<parseClaudeConversation(Head(convs)).v>> ELSE <<>>)
         \o ClaudeParsed(Tail(convs))

\* claude.ts, lines 19-60: what one file adds to conversations
ClaudeFile(file) ==
    IF Ext(file.name) = "json"
    THEN CASE file.json.k = "malformed" -> <<>>
           [] file.json.k \in {"array", "wrapped"} ->
                ClaudeParsed(file.json.convs)
           [] file.json.k = "single" /\ file.json.conv.shape = "messages" ->
                ClaudeParsed(<<file.json.conv>>)
           [] OTHER ->
                <<<<"LF", "LF", "=== CLAUDE JSON: ", file.name, " ===", "LF">>
                    \o Encode(file.json)>>
    ELSE IF Ext(file.name) = "md"
    THEN <<<<"LF", "LF", "=== CLAUDE CONVERSATION (Markdown) ===", "LF">>
             \o file.raw>>
    ELSE IF Ext(file.name) = "txt" \/ TypeIsText(file)
    THEN <<<<"LF", "LF", "=== CLAUDE CONVERSATION (Text) ===", "LF">>
             \o file.raw>>
    ELSE <<>>

RECURSIVE ClaudeConversations(_)
ClaudeConversations(fs) ==
    IF fs = <<>> THEN <<>>
    ELSE ClaudeFile(Head(fs)) \o ClaudeConversations(Tail(fs))

ClaudeSentinel == <<"No readable Claude export content found.">>

\* claude.ts, lines 12-68
parseClaudeFiles(fs) ==
    LET conversations == ClaudeConversations(fs)
    IN IF Len(conversations) = 0 THEN ClaudeSentinel
       ELSE Join(conversations, <<"LF", "LF">>)

\* gemini.ts, lines 138-163: role and text of every message whose text is not blank
RECURSIVE GeminiMessageParts(_)
GeminiMessageParts(msgs) ==
    IF msgs = <<>> THEN <<>>
    ELSE (IF Trim(Head(msgs).content) # <<>>
          THEN <<ToUpperCase(<<Head(msgs).role>>) \o TimeStr(Head(msgs).timestamp)
                   \o <<":">>,
                 Head(msgs).content, <<>>>>
          ELSE <<>>)
         \o GeminiMessageParts(Tail(msgs))

\* gemini.ts, lines 99-166
parseGeminiConversation(conv) ==
    LET parts == <<<<"LF", "=== CONVERSATION: ", conv.title, " ===">>>>
                   \o DateParts(conv) \o <<<<"LF">>>>
                   \o GeminiMessageParts(SortByTime(MessagesOf(conv)))
    IN IF Len(parts) > 3 THEN JStr(Join(parts, <<"LF">>)) ELSE JNull

\* gemini.ts, lines 26-29: the conversations that parse to a string, in order
RECURSIVE GeminiParsed(_)
GeminiParsed(convs) ==
    IF convs = <<>> THEN <<>>
    ELSE (IF parseGeminiConversation(Head(convs)) # JNull
          THEN <<parseGeminiConversation(Head(convs)).v>> ELSE <<>>)
         \o GeminiParsed(Tail(convs))

\* gemini.ts, lines 58-62: the lines of a JSONL file up to the first one that
\* JSON.parse rejects; the throw leaves what was pushed before it in place
RECURSIVE GeminiJsonLines(_)
GeminiJsonLines(lines) ==
    IF lines = <<>> \/ Head(lines).k = "malformed" THEN <<>>
    ELSE GeminiParsed(<<Head(lines).conv>>) \o GeminiJsonLines(Tail(lines))

\* gemini.ts, lines 19-86: what one file adds to conversations
GeminiFile(file) ==
    IF Ext(file.name) = "json"
    THEN CASE file.json.k = "malformed" -> <<>>
           [] file.json.k \in {"array", "wrapped"} ->
                GeminiParsed(file.json.convs)
           [] file.json.k = "single" -> GeminiParsed(<<file.json.conv>>)
           [] OTHER -> <<>>
    ELSE IF Ext(file.name) = "jsonl"
    THEN GeminiJsonLines(file.json.lines)
    ELSE IF Ext(file.name) = "md"
    THEN <<<<"LF", "LF", "=== GEMINI CONVERSATION (Markdown) ===", "LF">>
             \o file.raw>>
    ELSE IF Ext(file.name) = "txt" \/ TypeIsText(file)
    THEN <<<<"LF", "LF", "=== GEMINI CONVERSATION (Text) ===", "LF">>
             \o file.raw>>
    ELSE <<>>

RECURSIVE GeminiConversations(_)
GeminiConversations(fs) ==
    IF fs = <<>> THEN <<>>
    ELSE GeminiFile(Head(fs)) \o GeminiConversations(Tail(fs))

GeminiSentinel == <<"No readable Gemini export content found.">>

\* gemini.ts, lines 12-94
parseGeminiFiles(fs) ==
    LET conversations == GeminiConversations(fs)
    IN IF Len(conversations) = 0 THEN GeminiSentinel
       ELSE Join(conversations, <<"LF", "LF">>)

\* what lowerName.includes(...) finds in the names of the model
NameMark(name) ==
    CASE name = "conversations.json" -> "chatgpt"
      [] name = "claude.json" -> "claude"
      [] OTHER -> "none"

\* lines 228-245 of parseFiles.ts: the first file whose name tells a provider
RECURSIVE FirstNameMark(_)
FirstNameMark(fs) ==
    IF fs = <<>> THEN "unknown"
    ELSE IF NameMark(Head(fs).name) # "none" THEN NameMark(Head(fs).name)
    ELSE FirstNameMark(Tail(fs))

\* parseFiles.ts, lines 211-248 of part_005
detectSource(fs, zipContents) ==
    LET paths == IF zipContents = Undefined THEN {}
                 ELSE {zipContents.v[k].name : k \in 1..Len(zipContents.v)}
    IN IF \E q \in paths : NameMark(q) = "chatgpt" THEN "chatgpt"
       ELSE IF \E q \in paths : NameMark(q) = "claude" THEN "claude"
       ELSE FirstNameMark(fs)

\* lines 276-296: the entries of an archive that are text by their path
RECURSIVE UploadedEntries(_)
UploadedEntries(es) ==
    IF es = <<>> THEN <<>>
    ELSE (IF Ext(Head(es).name) \in {"json", "txt", "md", "html", "htm"}
          THEN <<<<"LF", "LF", "[FILE: ", Head(es).name, "]", "LF">>
                   \o Head(es).raw \o <<"LF">>>>
          ELSE <<>>)
         \o UploadedEntries(Tail(es))

\* lines 266-303: an archive adds its entries, any other file adds its text
RECURSIVE UploadedChunks(_)
UploadedChunks(fs) ==
    IF fs = <<>> THEN <<>>
    ELSE (IF Ext(Head(fs).name) = "zip" THEN UploadedEntries(Head(fs).entries)
          ELSE <<<<"LF", "LF", "[FILE: ", Head(fs).name, "]", "LF">>
                   \o Head(fs).raw \o <<"LF">>>>)
         \o UploadedChunks(Tail(fs))

\* lines 270-273: zipContents holds the files of the last archive of the upload
LastZipContents(fs) ==
    LET zips == {k \in 1..Len(fs) : Ext(fs[k].name) = "zip"}
    IN IF zips = {} THEN Undefined
       ELSE JArr(fs[CHOOSE k \in zips : \A m \in zips : m <= k].entries)

\* parseFiles.ts, lines 258-312 of part_005
parseUploadedFiles(fs) ==
    [text |-> Trim(Join(UploadedChunks(fs), <<"LF">>)),
     source |-> detectSource(fs, LastZipContents(fs))]

\* index.ts, lines 30-32: files.find of the first .zip
FindZip(fs) ==
    LET zips == {k \in 1..Len(fs) : Ext(fs[k].name) = "zip"}
    IN IF zips = {} THEN Undefined
       ELSE fs[CHOOSE k \in zips : \A m \in zips : k <= m]

\* index.ts, lines 17-77: detect the provider and route to its parser
parseFilesToUnifiedHistory(fs) ==
    IF Len(fs) = 0 THEN Thrown
    ELSE LET p == detectProvider(fs)
         IN CASE p = "chatgpt" ->
                   IF FindZip(fs) = Undefined THEN Thrown
                   ELSE [provider |-> p, rawText |-> parseChatGPTZip(FindZip(fs))]
              [] p = "claude" -> [provider |-> p, rawText |-> parseClaudeFiles(fs)]
              [] p = "gemini" -> [provider |-> p, rawText |-> parseGeminiFiles(fs)]
              [] OTHER ->
                   [provider |-> IF p = "unknown" THEN "plaintext" ELSE p,
                    rawText |-> parsePlaintextFiles(fs)]

\* extractFromChunks.ts, line 174: the chunk names a work topic
IsWorkHeavy(chunk) == \E k \in 1..Len(chunk) : chunk[k] = "project"

\* the budget extractIdentityFromLongText gives chunkText
ExtractBudget == 8000

\* chunkText.ts, lines 15-18, for a text within the budget: nothing for an empty
\* text, otherwise the text as its one chunk
ShortChunks(t) == IF Len(t) = 0 THEN <<>> ELSE <<t>>

(***************************************************************************)
(* Uploads of the model                                                    *)
(***************************************************************************)
MessageRoles == {"user", "system", "tool"}
MessageTexts == {<<>>, <<" ">>, <<"h", "i">>}
MessageTimes == {1, 2}

\* the messages without a timestamp
Messages == [role : MessageRoles, content : MessageTexts, timestamp : {0}]

\* the user messages "hi" and "yo", with a timestamp and without one
TimedMessages ==
    [role : {"user"}, content : {<<"h", "i">>, <<"y", "o">>},
     timestamp : {0} \cup MessageTimes]

Conversation(shape, messages, created, updated) ==
    [title |-> "Trip", shape |-> shape, messages |-> messages,
     created_at |-> created, updated_at |-> updated]

\* a conversation of an export, its messages under mapping or under messages:
\* up to MaxMessages messages without timestamps; at most one message, with or
\* without the fields created_at and updated_at; two user messages with or
\* without timestamps
Conversations ==
    UNION {{Conversation(sh, m, FALSE, FALSE) : m \in SeqsUpTo(Messages, MaxMessages)}
             \cup {Conversation(sh, m, c, u) :
                     m \in SeqsUpTo(Messages, 1), c \in BOOLEAN, u \in BOOLEAN}
             \cup {Conversation(sh, m, FALSE, FALSE) : m \in [1..2 -> TimedMessages]} :
           sh \in {"mapping", "messages"}}

NoJson == [k |-> "none"]
TextFile(name, type, raw) ==
    [name |-> name, type |-> type, raw |-> raw, json |-> NoJson, entries |-> <<>>]
JsonFile(name, json) ==
    [name |-> name, type |-> "application/json", raw |-> Encode(json),
     json |-> json, entries |-> <<>>]
ZipOf(es) ==
    [name |-> "export.zip", type |-> "application/zip", raw |-> <<"PK">>,
     json |-> NoJson, entries |-> es]

Hello == [title |-> "Trip", shape |-> "messages",
          messages |-> <<[role |-> "user", content |-> <<"h", "i">>,
                          timestamp |-> 0]>>,
          created_at |-> FALSE, updated_at |-> FALSE]
BrokenJson == [k |-> "malformed", raw |-> <<"{">>]
EmptyJson == [k |-> "malformed", raw |-> <<>>]

\* an export file that holds one conversation
StructuredFiles ==
    UNION {{JsonFile("chat.json", [k |-> "array", convs |-> <<c>>]),
            ZipOf(<<JsonFile("conversations.json",
                             [k |-> "array", convs |-> <<c>>])>>)} :
             c \in Conversations}

\* the other files: text, binary, malformed and unknown JSON, JSONL, archives
PlainFiles ==
    {TextFile("notes.txt", "text/plain", <<"h", "i">>),
     TextFile("notes.md", "", <<"project">>),
     TextFile("photo.bin", "application/octet-stream", <<"?">>),
     TextFile("README", "text/plain", <<>>),
     JsonFile("chat.json", BrokenJson),
     JsonFile("claude.json", [k |-> "other"]),
     JsonFile("chat.json", [k |-> "single", conv |-> Hello]),
     [name |-> "turns.jsonl", type |-> "",
      raw |-> EncodeConversation(Hello) \o <<"LF", "{">>,
      json |-> [k |-> "lines",
                lines |-> <<[k |-> "single", conv |-> Hello], BrokenJson>>],
      entries |-> <<>>],
     ZipOf(<<>>),
     ZipOf(<<JsonFile("conversations.json", EmptyJson)>>),
     ZipOf(<<JsonFile("other.json", [k |-> "other"]),
             TextFile("photo.bin", "application/octet-stream", <<"?">>)>>)}

Uploads ==
    SeqsUpTo(PlainFiles, MaxFiles) \cup {<<f>> : f \in StructuredFiles}

(***************************************************************************)
(* An upload as a state machine: one parser entry point is called on the   *)
(* files; the text of parseFilesToUnifiedHistory goes on to the Extractor  *)
(***************************************************************************)
IdleUpload ==
    /\ files = <<>> /\ called = "none" /\ provider = "none"
    /\ rawText = Undefined /\ upc = "idle"

InitUpload ==
    /\ files \in Uploads
    /\ called = "none" /\ provider = "none" /\ rawText = Undefined /\ upc = "ready"

\* index.ts, lines 17-77
CallParseFilesToUnifiedHistory ==
    /\ upc = "ready"
    /\ called' = "parseFilesToUnifiedHistory"
    /\ LET r == parseFilesToUnifiedHistory(files)
       IN IF r = Thrown
          THEN rawText' = Thrown /\ provider' = provider /\ upc' = "failed"
          ELSE rawText' = JStr(r.rawText) /\ provider' = detectProvider(files)
               /\ upc' = "parsed"
    /\ UNCHANGED files
    /\ UNCHANGED <<mergeVars, historyVars, extractVars, chunkVars, apiVars, storeVars>>

\* extractFromChunks.ts, lines 118-126: the text is chunked, the loop may start
ExtractFromRawText ==
    /\ upc = "parsed" /\ called = "parseFilesToUnifiedHistory"
    /\ LET t == Trim(ReplaceCRLF(rawText.v))
       IN /\ Len(t) <= ExtractBudget
          /\ chunks' = [k \in 1..Len(ShortChunks(t)) |->
                          [workHeavy |-> IsWorkHeavy(ShortChunks(t)[k])]]
    /\ epc' = "start"
    /\ upc' = "extracting"
    /\ UNCHANGED <<idx, partials, origins, calls, used, extracted>>
    /\ UNCHANGED <<files, called, provider, rawText>>
    /\ UNCHANGED <<mergeVars, historyVars, chunkVars, apiVars, storeVars>>

\* chatgpt.ts, lines 8-144, on the first archive of the upload
CallParseChatGPTZip ==
    /\ upc = "ready"
    /\ FindZip(files) # Undefined
    /\ called' = "parseChatGPTZip"
    /\ rawText' = JStr(parseChatGPTZip(FindZip(files)))
    /\ provider' = "chatgpt"
    /\ upc' = "returned"
    /\ UNCHANGED files
    /\ UNCHANGED <<mergeVars, historyVars, extractVars, chunkVars, apiVars, storeVars>>

\* claude.ts, lines 12-68
CallParseClaudeFiles ==
    /\ upc = "ready"
    /\ called' = "parseClaudeFiles"
    /\ rawText' = JStr(parseClaudeFiles(files))
    /\ provider' = "claude"
    /\ upc' = "returned"
    /\ UNCHANGED files
    /\ UNCHANGED <<mergeVars, historyVars, extractVars, chunkVars, apiVars, storeVars>>

\* gemini.ts, lines 12-94
CallParseGeminiFiles ==
    /\ upc = "ready"
    /\ called' = "parseGeminiFiles"
    /\ rawText' = JStr(parseGeminiFiles(files))
    /\ provider' = "gemini"
    /\ upc' = "returned"
    /\ UNCHANGED files
    /\ UNCHANGED <<mergeVars, historyVars, extractVars, chunkVars, apiVars, storeVars>>

\* plaintext.ts, lines 186-210 of chatgpt.ts
CallParsePlaintextFiles ==
    /\ upc = "ready"
    /\ called' = "parsePlaintextFiles"
    /\ rawText' = JStr(parsePlaintextFiles(files))
    /\ provider' = "plaintext"
    /\ upc' = "returned"
    /\ UNCHANGED files
    /\ UNCHANGED <<mergeVars, historyVars, extractVars, chunkVars, apiVars, storeVars>>

\* parseFiles.ts, lines 258-312 of part_005
CallParseUploadedFiles ==
    /\ upc = "ready"
    /\ called' = "parseUploadedFiles"
    /\ rawText' = JStr(parseUploadedFiles(files).text)
    /\ provider' = parseUploadedFiles(files).source
    /\ upc' = "returned"
    /\ UNCHANGED files
    /\ UNCHANGED <<mergeVars, historyVars, extractVars, chunkVars, apiVars, storeVars>>

NextUpload ==
    \/ CallParseFilesToUnifiedHistory \/ ExtractFromRawText
    \/ CallParseChatGPTZip \/ CallParseClaudeFiles \/ CallParseGeminiFiles
    \/ CallParsePlaintextFiles \/ CallParseUploadedFiles

(***************************************************************************)
(* Claims about the Format Detector, the Parsers and the upload pipeline   *)
(***************************************************************************)
\* a file that is neither text by its type or its name nor an archive
Unrecognized(file) ==
    ~TypeIsText(file) /\ Ext(file.name) = "none"

\* C13: an upload with no extractable text at all (every file unrecognized
\* binary) never leads to a completion-service call and never to a returned
\* profile; the pipeline parse -> chunk -> extract fails for it instead.
C13_NoContentIsError ==
    (called = "parseFilesToUnifiedHistory"
     /\ \A k \in 1..Len(files) : Unrecognized(files[k])) =>
        /\ calls = <<>>
        /\ epc # "returned"
        /\ extracted = Undefined

\* no file of the upload is an archive or carries a provider's name
NoProviderSignal(fs) ==
    \A k \in 1..Len(fs) :
      Ext(fs[k].name) # "zip" /\ NameMark(fs[k].name) = "none"

\* C14: for a non-empty upload in which no provider signal matches, the detector
\* returns plaintext if at least one file is text-like and unknown if none is.
C14_DetectorFallback ==
    (called \in {"parseFilesToUnifiedHistory", "parseUploadedFiles"}
     /\ files # <<>> /\ NoProviderSignal(files)) =>
        /\ rawText # Thrown
        /\ provider = IF \E k \in 1..Len(files) : isTextLike(files[k])
                      THEN "plaintext" ELSE "unknown"

\* a message that is content: not a system or tool turn, and its body not blank
IsContent(msg) ==
    msg.role \notin {"system", "tool"} /\ Trim(msg.content) # <<>>

HasContent(conv) ==
    \E k \in 1..Len(conv.messages) : IsContent(conv.messages[k])

\* the conversations a parsed JSON value holds
ConversationsIn(json) ==
    CASE json.k \in {"array", "wrapped"} ->
           {json.convs[k] : k \in 1..Len(json.convs)}
      [] json.k = "single" -> {json.conv}
      [] json.k = "lines" ->
           {json.lines[k].conv :
              k \in {m \in 1..Len(json.lines) : json.lines[m].k = "single"}}
      [] OTHER -> {}

\* a file with a usable message or usable text in it
Usable(file) ==
    \/ \E c \in ConversationsIn(file.json) : HasContent(c)
    \/ /\ file.json = NoJson
       /\ TypeIsText(file) \/ Ext(file.name) \in {"txt", "md"}
       /\ Trim(file.raw) # <<>>

\* the files a parser looks into: the entries of the first archive for the
\* ChatGPT parser, the files themselves for the others
ReadBy(name, fs) ==
    IF name = "parseChatGPTZip"
    THEN {FindZip(fs).entries[k] : k \in 1..Len(FindZip(fs).entries)}
    ELSE {fs[k] : k \in 1..Len(fs)}
           \cup UNION {{fs[k].entries[m] : m \in 1..Len(fs[k].entries)} :
                         k \in 1..Len(fs)}

\* the nothing-found strings of a parser
Sentinels(name) ==
    CASE name = "parseChatGPTZip" -> {ChatGPTNoFile, ChatGPTNoMessages}
      [] name = "parseClaudeFiles" -> {ClaudeSentinel}
      [] name = "parseGeminiFiles" -> {GeminiSentinel}
      [] name = "parsePlaintextFiles" -> {PlaintextSentinel}
      [] OTHER -> {}

Parsers ==
    {"parseChatGPTZip", "parseClaudeFiles", "parseGeminiFiles",
     "parsePlaintextFiles", "parseUploadedFiles"}

\* C15: every parser returns a non-empty string; with no usable message or text
\* in what it reads, the string is its nothing-found sentinel, and with some it
\* is not.
C15_ParserOutput ==
    (called \in Parsers /\ upc = "returned") =>
        /\ rawText.t = "string" /\ rawText.v # <<>>
        /\ (\A f \in ReadBy(called, files) : ~Usable(f)) =>
              rawText.v \in Sentinels(called)
        /\ (\E f \in ReadBy(called, files) : Usable(f)) =>
              rawText.v \notin Sentinels(called)

IsRoleToken(tok) == tok \in {"USER", "ASSISTANT", "SYSTEM", "TOOL"}

\* the roles of the message lines of a transcript, in order
RolesIn(transcript) == SelectSeq(transcript, IsRoleToken)

\* the roles of the messages of a conversation that are content, in order
RECURSIVE ContentRoles(_)
ContentRoles(msgs) ==
    IF msgs = <<>> THEN <<>>
    ELSE (IF IsContent(Head(msgs)) THEN ToUpperCase(<<Head(msgs).role>>)
          ELSE <<>>)
         \o ContentRoles(Tail(msgs))

\* the conversation of an export file of one conversation
TheConversation(file) ==
    IF Ext(file.name) = "zip" THEN file.entries[1].json.convs[1]
    ELSE file.json.convs[1]

\* C16: the transcript a provider parser makes of a structured conversation has
\* a line for every message that is content, in order, and no line for a system
\* or tool message or for a message with an empty or blank body.
C16_DropNonContent ==
    (/\ upc = "returned"
     /\ Len(files) = 1 /\ files[1] \in StructuredFiles
     /\ \/ called = "parseChatGPTZip"
        \/ /\ called \in {"parseClaudeFiles", "parseGeminiFiles"}
           /\ Ext(files[1].name) = "json"
           /\ TheConversation(files[1]).shape = "messages") =>
        RolesIn(rawText.v) = ContentRoles(TheConversation(files[1]).messages)

\* structured data that does not parse: a JSON file JSON.parse rejects, a JSONL
\* file with such a line
Malformed(file) ==
    \/ file.json.k = "malformed"
    \/ /\ file.json.k = "lines"
       /\ \E k \in 1..Len(file.json.lines) : file.json.lines[k].k = "malformed"

\* s without its k-th entry
Without(s, k) == SubSeq(s, 1, k - 1) \o SubSeq(s, k + 1, Len(s))

\* C17: with one file of the batch malformed, the parser returns what it would
\* return for the remaining files alone (for the ChatGPT parser the batch is
\* the entries of the archive).
C17_FileFailureIsolated ==
    /\ (called \in {"parseClaudeFiles", "parseGeminiFiles"} /\ upc = "returned") =>
         \A k \in 1..Len(files) :
           (Malformed(files[k])
            /\ \A m \in 1..Len(files) : Malformed(files[m]) => m = k) =>
              /\ rawText.t = "string"
              /\ rawText.v = IF called = "parseClaudeFiles"
                             THEN parseClaudeFiles(Without(files, k))
                             ELSE parseGeminiFiles(Without(files, k))
    /\ (called = "parseChatGPTZip" /\ upc = "returned") =>
         LET zip == FindZip(files)
         IN \A k \in 1..Len(zip.entries) :
              (Malformed(zip.entries[k])
               /\ \A m \in 1..Len(zip.entries) : Malformed(zip.entries[m]) => m = k) =>
                 /\ rawText.t = "string"
                 /\ rawText.v =
                      parseChatGPTZip([zip EXCEPT !.entries = Without(@, k)])

\* the first letters of the bodies "hi" and "yo" in a transcript, in its order
IsBodyToken(tok) == tok \in {"h", "y"}
BodiesIn(transcript) == SelectSeq(transcript, IsBodyToken)

\* two user messages with the bodies "hi" and "yo", one each
TwoBodies(msgs) ==
    /\ Len(msgs) = 2
    /\ \A k \in 1..2 : msgs[k].role = "user"
    /\ {msgs[1].content, msgs[2].content} = {<<"h", "i">>, <<"y", "o">>}

\* a structured upload of one conversation handed to a provider parser that
\* reads its messages
OneConversationParsed ==
    /\ upc = "returned"
    /\ Len(files) = 1 /\ files[1] \in StructuredFiles
    /\ \/ called = "parseChatGPTZip"
       \/ /\ called \in {"parseClaudeFiles", "parseGeminiFiles"}
          /\ Ext(files[1].name) = "json"
          /\ TheConversation(files[1]).shape = "messages"

\* C28: in the transcript a provider parser makes of a conversation, under
\* mapping or under messages, two messages that both carry a timestamp appear
\* in the order of their timestamps, and two messages with equal timestamps or
\* with none appear in the order of the array.
C28_ChronologicalOrder ==
    (OneConversationParsed /\ TwoBodies(TheConversation(files[1]).messages)) =>
        LET msgs == TheConversation(files[1]).messages
            first == Head(msgs[1].content)
            second == Head(msgs[2].content)
        IN /\ (msgs[1].timestamp > 0 /\ msgs[2].timestamp > 0
               /\ msgs[2].timestamp < msgs[1].timestamp) =>
                 BodiesIn(rawText.v) = <<second, first>>
           /\ (msgs[1].timestamp > 0 /\ msgs[2].timestamp > 0
               /\ msgs[1].timestamp < msgs[2].timestamp) =>
                 BodiesIn(rawText.v) = <<first, second>>
           /\ msgs[1].timestamp = msgs[2].timestamp =>
                 BodiesIn(rawText.v) = <<first, second>>

\* the part of C28 about the parsers of Claude and Gemini exports and about a
\* ChatGPT conversation under mapping
C28_WhereSorted ==
    (OneConversationParsed /\ called = "parseChatGPTZip"
     /\ TheConversation(files[1]).shape = "messages") \/ C28_ChronologicalOrder

\* some message of the conversation has a text that is not empty
HasText(conv) == \E k \in 1..Len(conv.messages) : conv.messages[k].content # <<>>

\* C30: parseClaudeConversation and parseGeminiConversation return null exactly
\* for a conversation without a message with non-empty text, whether or not the
\* conversation has its created and updated timestamps; the file parser then
\* has nothing to return but its sentinel.
C30_NullIffNoText ==
    (/\ upc = "returned"
     /\ Len(files) = 1 /\ files[1] \in StructuredFiles
     /\ called \in {"parseClaudeFiles", "parseGeminiFiles"}
     /\ Ext(files[1].name) = "json"
     /\ TheConversation(files[1]).shape = "messages") =>
        LET conv == TheConversation(files[1])
            parsed == IF called = "parseClaudeFiles"
                      THEN parseClaudeConversation(conv)
                      ELSE parseGeminiConversation(conv)
            sentinel == IF called = "parseClaudeFiles" THEN ClaudeSentinel
                        ELSE GeminiSentinel
        IN /\ parsed = JNull <=> ~HasText(conv)
           /\ rawText.v = sentinel <=> ~HasText(conv)

\* the part of C30 about conversations that lack one of the two timestamps and
\* whose texts are not blank
C30_WithoutBothDates ==
    (upc = "returned" /\ Len(files) = 1 /\ files[1] \in StructuredFiles
     /\ ~(TheConversation(files[1]).created_at /\ TheConversation(files[1]).updated_at)
     /\ \A k \in 1..Len(TheConversation(files[1]).messages) :
          TheConversation(files[1]).messages[k].content # <<" ">>)
        => C30_NullIffNoText

(***************************************************************************)
(* API keys and the identity-graph API (lib/api/auth.ts, lib/db/index.ts,  *)
(* app/api/keys/route.ts, app/api/identity-graph/route.ts)                 *)
(*                                                                         *)
(* An e-mail address, a key and a header are atoms here.  The id of a user *)
(* (a nanoid, one per e-mail address) is written as the address, the id of *)
(* a key row as its position in the table.  The clock counts hours.        *)
(***************************************************************************)
ReadLimit == 100        \* limitPerHour of GET /api/identity-graph
WriteLimit == 50        \* limitPerHour of POST /api/identity-graph
Hour == 1               \* 60 * 60 * 1000 ms

Emails == {"ana@x.org", "bo@x.org"}

\* the keys generateApiKey can return: "pk_live_" and 32 random characters
KeyStrings == {"pk_live_aaaaaaa1", "pk_live_aaaaaaa2", "pk_live_bbbbbbb1"}

\* key.substring(0, 15)
KeyPrefix(key) ==
    CASE key \in {"pk_live_aaaaaaa1", "pk_live_aaaaaaa2"} -> "pk_live_aaaaaaa"
      [] key = "pk_live_bbbbbbb1" -> "pk_live_bbbbbbb"
      [] OTHER -> key

\* bcrypt.hashSync(key, 10) and bcrypt.compareSync(key, hash)
hashSync(key) == [bcrypt |-> key]
compareSync(key, hash) == hash = hashSync(key)

\* the Authorization headers a request may carry
NoHeader == [scheme |-> "none"]
Bearer(key) == [scheme |-> "Bearer", key |-> key]
Headers ==
    {NoHeader, [scheme |-> "Basic"], Bearer("sk_test_1")}
      \cup {Bearer(k) : k \in KeyStrings}

\* a lookup that forgets the condition revoked_at IS NULL
verifyIgnoringRevocation(providedKey, keys) ==
    LET matching ==
          SelectSeq(keys, LAMBDA r : /\ r.key_prefix = KeyPrefix(providedKey)
                                     /\ compareSync(providedKey, r.key_hash))
    IN IF matching = <<>> THEN JNull ELSE Head(matching)

\* verifyApiKeyWithDatabase: the first row that is not revoked, has the prefix of
\* the key and a hash the key compares to; null if there is none
verifyApiKeyWithDatabase(providedKey, keys) ==
    LET candidates ==
          SelectSeq(keys, LAMBDA r : /\ r.key_prefix = KeyPrefix(providedKey)
                                     /\ r.revoked_at = JNull)
        matching == SelectSeq(candidates, LAMBDA r : compareSync(providedKey, r.key_hash))
    IN IF matching = <<>> THEN JNull ELSE Head(matching)

\* authenticateRequest up to the lookup: the key record, or null for a 401
authenticateRequest(header, keys) ==
    IF header.scheme # "Bearer" THEN JNull
    ELSE IF header.key \notin KeyStrings THEN JNull   \* no "pk_live_" in front
    ELSE verifyApiKeyWithDatabase(header.key, keys)

\* SELECT COUNT(*) FROM api_usage WHERE user_id = ? AND created_at >= ?
getApiUsageCount(userId, since, usage) ==
    LET RECURSIVE Sum(_)
        Sum(S) == IF S = {} THEN 0
                  ELSE LET r == CHOOSE r \in S : TRUE
                       IN usage[r] + Sum(S \ {r})
    IN Sum({r \in DOMAIN usage : r.user_id = userId /\ r.created_at >= since})

checkRateLimit(userId, limitPerHour, usage, at) ==
    getApiUsageCount(userId, at - Hour, usage) < limitPerHour

\* updateApiKeyLastUsed
updateApiKeyLastUsed(keys, keyId, at) ==
    [k \in 1..Len(keys) |->
       IF keys[k].id = keyId THEN [keys[k] EXCEPT !.last_used_at = JNum(at)]
       ELSE keys[k]]

\* logApiUsage
logApiUsage(usage, keyId, userId, endpoint, at) ==
    usage (+) SetToBag({[api_key_id |-> keyId, user_id |-> userId,
                         endpoint |-> endpoint, created_at |-> at]})

\* revokeApiKey: UPDATE api_keys SET revoked_at = now WHERE id = keyId
revokeApiKey(keys, keyId, at) ==
    [k \in 1..Len(keys) |->
       IF keys[k].id = keyId THEN [keys[k] EXCEPT !.revoked_at = JNum(at)]
       ELSE keys[k]]

\* getApiKeysByUserId(user.id).find((k) => k.id === keyId)
keyToRevoke(keys, userId, keyId) ==
    LET found == SelectSeq(keys, LAMBDA r : r.user_id = userId /\ JNum(r.id) = keyId)
    IN IF found = <<>> THEN Undefined ELSE Head(found)

NoResponse == [route |-> "none"]

\* the tables a deployment may hold when the requests of the model begin: none,
\* or one user with one key and a number of requests logged in the current hour
UsageLevels == {WriteLimit - 1, ReadLimit - 2, ReadLimit - 1, ReadLimit}

FirstKeyRow ==
    [id |-> 1, user_id |-> "ana@x.org", key_hash |-> hashSync("pk_live_aaaaaaa1"),
     key_prefix |-> "pk_live_aaaaaaa", last_used_at |-> JNum(1), created_at |-> 1,
     revoked_at |-> JNull]

FirstUsageRow ==
    [api_key_id |-> 1, user_id |-> "ana@x.org", endpoint |-> "/api/identity-graph",
     created_at |-> 1]

IdleApi ==
    /\ users = {} /\ api_keys = <<>> /\ api_usage = EmptyBag
    /\ identity_graphs = [e \in Emails |-> 0]
    /\ now = 0 /\ response = NoResponse /\ served = 0

InitApi ==
    /\ now = 1 /\ response = NoResponse /\ served = 0
    /\ identity_graphs = [e \in Emails |-> 0]
    /\ \/ users = {} /\ api_keys = <<>> /\ api_usage = EmptyBag
       \/ /\ users = {"ana@x.org"}
          /\ api_keys = <<FirstKeyRow>>
          /\ \E n \in UsageLevels : api_usage = [r \in {FirstUsageRow} |-> n]

\* POST /api/keys
PostKeys ==
    /\ now > 0 /\ served < MaxRequests
    /\ \E email \in Emails \cup {"no at sign"} :
         IF email \notin Emails
         THEN /\ response' = [route |-> "/api/keys", method |-> "POST", status |-> 400]
              /\ UNCHANGED <<users, api_keys>>
         ELSE /\ Len(api_keys) < MaxKeys
              /\ \E key \in KeyStrings :
                   /\ \A k \in 1..Len(api_keys) : ~compareSync(key, api_keys[k].key_hash)
                   /\ users' = users \cup {email}
                   /\ api_keys' = Append(api_keys,
                        [id |-> Len(api_keys) + 1, user_id |-> email,
                         key_hash |-> hashSync(key), key_prefix |-> KeyPrefix(key),
                         last_used_at |-> JNull, created_at |-> now,
                         revoked_at |-> JNull])
                   /\ response' = [route |-> "/api/keys", method |-> "POST",
                                   status |-> 201, api_key |-> key]
    /\ served' = served + 1
    /\ UNCHANGED <<api_usage, identity_graphs, now>>
    /\ UNCHANGED <<mergeVars, historyVars, extractVars, chunkVars, uploadVars, storeVars>>

\* DELETE /api/keys
DeleteKeys ==
    /\ now > 0 /\ served < MaxRequests
    /\ \E keyId \in {JNull} \cup {JNum(k) : k \in 1..MaxKeys},
          email \in {JNull} \cup {JStr(e) : e \in Emails} :
         LET status ==
               IF keyId = JNull \/ email = JNull THEN 400
               ELSE IF email.v \notin users THEN 404
               ELSE IF keyToRevoke(api_keys, email.v, keyId) = Undefined THEN 404
               ELSE 200
         IN /\ api_keys' = IF status = 200 THEN revokeApiKey(api_keys, keyId.v, now)
                           ELSE api_keys
            /\ response' = [route |-> "/api/keys", method |-> "DELETE",
                            status |-> status, id |-> keyId, email |-> email]
    /\ served' = served + 1
    /\ UNCHANGED <<users, api_usage, identity_graphs, now>>
    /\ UNCHANGED <<mergeVars, historyVars, extractVars, chunkVars, uploadVars, storeVars>>

\* GET /api/identity-graph
GetIdentityGraph ==
    /\ now > 0 /\ served < MaxRequests
    /\ \E header \in Headers :
         LET keyRecord == authenticateRequest(header, api_keys)
             logged == logApiUsage(api_usage, keyRecord.id, keyRecord.user_id,
                                   "/api/identity-graph", now)
         IN IF keyRecord = JNull
            THEN /\ response' = [route |-> "/api/identity-graph", method |-> "GET",
                                 status |-> 401, header |-> header]
                 /\ UNCHANGED <<api_keys, api_usage>>
            ELSE /\ api_keys' = updateApiKeyLastUsed(api_keys, keyRecord.id, now)
                 /\ api_usage' = logged
                 /\ response' =
                      [route |-> "/api/identity-graph", method |-> "GET",
                       header |-> header,
                       status |->
                         IF ~checkRateLimit(keyRecord.user_id, ReadLimit, logged, now)
                         THEN 429
                         ELSE IF identity_graphs[keyRecord.user_id] = 0 THEN 404
                         ELSE 200]
    /\ served' = served + 1
    /\ UNCHANGED <<users, identity_graphs, now>>
    /\ UNCHANGED <<mergeVars, historyVars, extractVars, chunkVars, uploadVars, storeVars>>

\* POST /api/identity-graph (PUT is an alias)
PostIdentityGraph ==
    /\ now > 0 /\ served < MaxRequests
    /\ \E header \in Headers, body \in {"not JSON", "no profile", "profile"} :
         LET keyRecord == authenticateRequest(header, api_keys)
             logged == logApiUsage(api_usage, keyRecord.id, keyRecord.user_id,
                                   "/api/identity-graph", now)
             status ==
               IF ~checkRateLimit(keyRecord.user_id, WriteLimit, logged, now) THEN 429
               ELSE IF body # "profile" THEN 400
               ELSE 200
         IN IF keyRecord = JNull
            THEN /\ response' = [route |-> "/api/identity-graph", method |-> "POST",
                                 status |-> 401, header |-> header]
                 /\ UNCHANGED <<api_keys, api_usage, identity_graphs>>
            ELSE /\ api_keys' = updateApiKeyLastUsed(api_keys, keyRecord.id, now)
                 /\ api_usage' = logged
                 /\ identity_graphs' =
                      IF status = 200
                      THEN [identity_graphs EXCEPT ![keyRecord.user_id] = @ + 1]
                      ELSE identity_graphs
                 /\ response' = [route |-> "/api/identity-graph", method |-> "POST",
                                 status |-> status, header |-> header]
    /\ served' = served + 1
    /\ UNCHANGED <<users, now>>
    /\ UNCHANGED <<mergeVars, historyVars, extractVars, chunkVars, uploadVars, storeVars>>

\* an hour passes
Tick ==
    /\ now > 0 /\ now < MaxClock
    /\ now' = now + 1
    /\ UNCHANGED <<users, api_keys, api_usage, identity_graphs, response, served>>
    /\ UNCHANGED <<mergeVars, historyVars, extractVars, chunkVars, uploadVars, storeVars>>

NextApi == PostKeys \/ DeleteKeys \/ GetIdentityGraph \/ PostIdentityGraph \/ Tick

(***************************************************************************)
(* Claims about the API                                                    *)
(***************************************************************************)
\* the user whose key row holds the hash of the key a header carries
OwnerOf(header) ==
    LET row == CHOOSE k \in 1..Len(api_keys) :
                 compareSync(header.key, api_keys[k].key_hash)
    IN api_keys[row].user_id

\* a step that answers a request of the given method to /api/identity-graph
Answers(method, status) ==
    /\ served' = served + 1
    /\ response'.route = "/api/identity-graph"
    /\ response'.method = method
    /\ response'.status = status

\* C24: a GET /api/identity-graph with a valid key is answered 429 only if the
\* key's user has made at least 100 requests within the preceding hour, counted
\* before the current request: each of the first 100 requests passes.
C24_ReadRateLimit ==
    [][Answers("GET", 429) =>
         getApiUsageCount(OwnerOf(response'.header), now - Hour, api_usage)
           >= ReadLimit]_vars

\* the rows of api_keys that hold the hash of the key and are revoked
RevokedRowsOf(key) ==
    {k \in 1..Len(api_keys) :
       compareSync(key, api_keys[k].key_hash) /\ api_keys[k].revoked_at # JNull}

\* C25: a revoked key stays revoked whatever is done later, a request that
\* presents it is answered 401 and logs no usage, and a key is revoked only by a
\* DELETE /api/keys that names it together with the e-mail address of its owner.
C25_RevocationPermanent ==
    [][/\ \A k \in 1..Len(api_keys) :
            api_keys[k].revoked_at # JNull =>
              /\ Len(api_keys') >= k
              /\ api_keys'[k].key_hash = api_keys[k].key_hash
              /\ api_keys'[k].revoked_at # JNull
       /\ (/\ served' = served + 1
           /\ response'.route = "/api/identity-graph"
           /\ response'.header.scheme = "Bearer"
           /\ RevokedRowsOf(response'.header.key) # {}) =>
             /\ response'.status = 401
             /\ api_usage' = api_usage
       /\ \A k \in 1..Len(api_keys) :
            (api_keys[k].revoked_at = JNull /\ api_keys'[k].revoked_at # JNull) =>
              /\ response'.route = "/api/keys"
              /\ response'.method = "DELETE"
              /\ response'.id = JNum(api_keys[k].id)
              /\ response'.email = JStr(api_keys[k].user_id)]_vars

\* C25 witness: a key was revoked, another key was created after that, and a
\* request that presents the revoked key has just been answered 401.
C25_Witness ==
    /\ response.route = "/api/identity-graph"
    /\ response.status = 401
    /\ response.header.scheme = "Bearer"
    /\ RevokedRowsOf(response.header.key) # {}
    /\ \E k \in RevokedRowsOf(response.header.key), j \in 1..Len(api_keys) :
         /\ api_keys[j].created_at > api_keys[k].revoked_at.v
         /\ api_keys[j].revoked_at = JNull
         /\ api_keys[j].user_id = api_keys[k].user_id

(***************************************************************************)
(* The export history store (lib/exportHistory.ts, lines 52-122)           *)
(*                                                                         *)
(* The item of localStorage is absent or holds the JSON of an array of     *)
(* records.  Of a record the model keeps the id and the timestamp.  The id *)
(* generateId makes (the time and nine random characters) is written as    *)
(* the number of the save, so that no two records share an id.             *)
(***************************************************************************)
MAX_EXPORTS == 50

Absent == [k |-> "absent"]
Item(exports) == [k |-> "json", exports |-> exports]

\* getExportHistory: the array of the item, [] when there is no item
getExportHistory(storage) ==
    IF storage.k = "absent" THEN <<>> ELSE storage.exports

\* a save that keeps every record
saveKeepingAll(storage, newRecord) ==
    Item(<<newRecord>> \o getExportHistory(storage))

\* saveExport: exports.unshift(newRecord), exports.slice(0, MAX_EXPORTS), setItem
saveExport(storage, newRecord) ==
    LET exports == <<newRecord>> \o getExportHistory(storage)
    IN Item(SubSeq(exports, 1, IF Len(exports) < MAX_EXPORTS THEN Len(exports)
                               ELSE MAX_EXPORTS))

\* exports.filter((e) => e.id !== id)
Filtered(storage, id) ==
    SelectSeq(getExportHistory(storage), LAMBDA e : e.id # id)

\* deleteExport: the item after the call; nothing is written when no record goes
deleteExport(storage, id) ==
    IF Len(Filtered(storage, id)) = Len(getExportHistory(storage)) THEN storage
    ELSE Item(Filtered(storage, id))

\* the ids a call of deleteExport names: the newest and the oldest record stored,
\* the first record ever saved, and an id never given out
DeleteIds ==
    LET exports == getExportHistory(localStorage)
    IN {1, saves + 1}
         \cup (IF exports = <<>> THEN {} ELSE {exports[1].id, exports[Len(exports)].id})

\* the records of n saves, newest first
Saved(n) == [k \in 1..n |-> [id |-> n + 1 - k, timestamp |-> 1]]

\* the store at rest
IdleStore ==
    /\ localStorage = Absent /\ saves = 0 /\ clock = 0
    /\ storeCall = [op |-> "none"] /\ storeCalls = 0

\* the store before the calls of the model: empty, or left by 49 or 50 saves
InitStore ==
    /\ clock = 1 /\ storeCall = [op |-> "none"] /\ storeCalls = 0
    /\ \/ localStorage = Absent /\ saves = 0
       \/ \E n \in {MAX_EXPORTS - 1, MAX_EXPORTS} :
            localStorage = Item(Saved(n)) /\ saves = n

\* saveExport(record), Date.now() having advanced or not
SaveExport ==
    /\ clock > 0 /\ storeCalls < MaxStoreCalls
    /\ \E at \in {clock, clock + 1} :
         LET newRecord == [id |-> saves + 1, timestamp |-> at]
         IN /\ localStorage' = saveExport(localStorage, newRecord)
            /\ storeCall' = [op |-> "saveExport", returned |-> newRecord]
            /\ clock' = at
    /\ saves' = saves + 1
    /\ storeCalls' = storeCalls + 1
    /\ UNCHANGED <<mergeVars, historyVars, extractVars, chunkVars, uploadVars, apiVars>>

\* deleteExport(id)
DeleteExport ==
    /\ clock > 0 /\ storeCalls < MaxStoreCalls
    /\ \E id \in DeleteIds :
         /\ localStorage' = deleteExport(localStorage, id)
         /\ storeCall' =
              [op |-> "deleteExport", id |-> id,
               returned |-> Len(Filtered(localStorage, id))
                              # Len(getExportHistory(localStorage))]
    /\ storeCalls' = storeCalls + 1
    /\ UNCHANGED <<saves, clock>>
    /\ UNCHANGED <<mergeVars, historyVars, extractVars, chunkVars, uploadVars, apiVars>>

\* clearHistory(): localStorage.removeItem
ClearHistory ==
    /\ clock > 0 /\ storeCalls < MaxStoreCalls
    /\ localStorage' = Absent
    /\ storeCall' = [op |-> "clearHistory"]
    /\ storeCalls' = storeCalls + 1
    /\ UNCHANGED <<saves, clock>>
    /\ UNCHANGED <<mergeVars, historyVars, extractVars, chunkVars, uploadVars, apiVars>>

NextStore == SaveExport \/ DeleteExport \/ ClearHistory

(***************************************************************************)
(* Claims about the export history store                                   *)
(***************************************************************************)
\* the ids of the records stored
StoredIds(storage) ==
    {getExportHistory(storage)[k].id : k \in 1..Len(getExportHistory(storage))}

\* the record saved last comes first: the ids, which count the saves, fall
NewestFirst(exports) ==
    \A i, j \in 1..Len(exports) : i < j => exports[i].id > exports[j].id

\* the least recently saved of the records stored
OldestId(storage) ==
    CHOOSE id \in StoredIds(storage) : \A other \in StoredIds(storage) : id <= other

\* the records of exports whose id is in ids, in the order of exports
Surviving(exports, ids) == SelectSeq(exports, LAMBDA e : e.id \in ids)

\* C29: the stored history never holds more than 50 records and holds them
\* newest-saved first; a save into a history of 50 drops the least recently
\* saved record and nothing else; deleteExport of an id that is not stored
\* returns false and leaves the history as it is.
C29_HistoryStore ==
    /\ [](/\ Len(getExportHistory(localStorage)) <= MAX_EXPORTS
          /\ NewestFirst(getExportHistory(localStorage)))
    /\ [][/\ (storeCall'.op = "saveExport"
              /\ Len(getExportHistory(localStorage)) = MAX_EXPORTS) =>
                /\ Len(getExportHistory(localStorage')) = MAX_EXPORTS
                /\ getExportHistory(localStorage')[1] = storeCall'.returned
                /\ StoredIds(localStorage') =
                     (StoredIds(localStorage) \ {OldestId(localStorage)})
                        \cup {storeCall'.returned.id}
                /\ Tail(getExportHistory(localStorage')) =
                     Surviving(getExportHistory(localStorage),
                          StoredIds(localStorage) \ {OldestId(localStorage)})
          /\ (storeCall'.op = "deleteExport"
              /\ storeCall'.id \notin StoredIds(localStorage)) =>
                /\ storeCall'.returned = FALSE
                /\ localStorage' = localStorage]_vars

\* a save into a full history has dropped the first record ever saved, and a
\* deleteExport of the dropped id has then returned false
C29_Witness ==
    /\ storeCalls = 2
    /\ storeCall.op = "deleteExport" /\ storeCall.id = 1 /\ storeCall.returned = FALSE
    /\ Len(getExportHistory(localStorage)) = MAX_EXPORTS
    /\ getExportHistory(localStorage)[MAX_EXPORTS].id = 2
    /\ getExportHistory(localStorage)[1].id = MAX_EXPORTS + 1

(***************************************************************************)
(* Specifications                                                          *)
(***************************************************************************)
\* each component runs with the others at rest
MergeAlone ==
    InitMerge /\ IdleHistory /\ IdleExtract /\ IdleChunk /\ IdleUpload /\ IdleApi /\ IdleStore
SpecMerge == MergeAlone /\ [][NextMerge]_vars

HistoryAlone ==
    InitHistory /\ IdleMerge /\ IdleExtract /\ IdleChunk /\ IdleUpload /\ IdleApi /\ IdleStore
SpecHistory == HistoryAlone /\ [][NextHistory]_vars

ExtractAlone ==
    InitExtract /\ IdleMerge /\ IdleHistory /\ IdleChunk /\ IdleUpload /\ IdleApi /\ IdleStore
SpecExtract == ExtractAlone /\ [][NextExtract]_vars

ChunkAlone ==
    InitChunk /\ IdleMerge /\ IdleHistory /\ IdleExtract /\ IdleUpload /\ IdleApi /\ IdleStore
SpecChunk == ChunkAlone /\ [][NextChunk]_vars

\* the Chunker when a call that can take a step does take it, on the texts of
\* letters and line breaks (where the loop cuts depends on the length of the text
\* and on its paragraph breaks alone)
ChunkLiveAlone ==
    /\ input \in SeqsUpTo({"a", "LF"}, MaxTextLen)
    /\ maxCharsPerChunk \in 1..MaxBudget
    /\ maxChunks \in 0..MaxCap
    /\ text = <<>> /\ start = 0 /\ chunkList = <<>> /\ slices = <<>>
    /\ chunked = <<>>
    /\ cpc = "call"
    /\ IdleMerge /\ IdleHistory /\ IdleExtract /\ IdleUpload /\ IdleApi /\ IdleStore
SpecChunkLive == ChunkLiveAlone /\ [][NextChunk]_vars /\ WF_vars(NextChunk)

\* the fragments of a triple: no profile, the field missing, or up to two entries
\* that differ in case and in padding, one of them possibly blank
ThreeOn(path) ==
    {JNull, WithField(path, Undefined),
     WithField(path, JArr(<<JStr(Blank), JStr(Python)>>))}
      \cup {WithField(path, JArr(a)) :
               a \in SeqsUpTo({JStr(Python), JStr(python), JStr(paddedGo)}, 2)}

\* the Profile Merger on three fragments that differ in one collection field
MergeThreeAlone ==
    /\ mpc = "call" /\ result = Undefined
    /\ \E path \in CollFields : list \in [1..3 -> ThreeOn(path)]
    /\ IdleHistory /\ IdleExtract /\ IdleChunk /\ IdleUpload /\ IdleApi /\ IdleStore
SpecMergeThree == MergeThreeAlone /\ [][NextMerge]_vars

\* an upload runs, and the Extractor when the upload hands it the text
UploadAlone ==
    InitUpload /\ IdleMerge /\ IdleHistory /\ IdleExtract /\ IdleChunk /\ IdleApi /\ IdleStore
NextUploadExtract == NextUpload \/ NextExtract
SpecUpload == UploadAlone /\ [][NextUploadExtract]_vars

\* the API serves requests
ApiAlone ==
    /\ InitApi /\ IdleMerge /\ IdleHistory /\ IdleExtract /\ IdleChunk
    /\ IdleUpload /\ IdleStore
SpecApi == ApiAlone /\ [][NextApi]_vars

\* the export history store is called
StoreAlone ==
    /\ InitStore /\ IdleMerge /\ IdleHistory /\ IdleExtract /\ IdleChunk
    /\ IdleUpload /\ IdleApi
SpecStore == StoreAlone /\ [][NextStore]_vars

\* the whole model: any one component runs
Init ==
    \/ MergeAlone \/ HistoryAlone \/ ExtractAlone \/ ChunkAlone \/ UploadAlone
    \/ ApiAlone \/ StoreAlone
Next ==
    \/ NextMerge \/ NextHistory \/ NextExtract \/ NextChunk \/ NextUpload
    \/ NextApi \/ NextStore
Spec == Init /\ [][Next]_vars

====
